---- MODULE Spec2Model ----
(***************************************************************************)
(* A model of the picky certificate-authority server: the content          *)
(* addressing scheme, the certificate store with its secondary indexes,    *)
(* the bootstrap of the root and intermediate CA, issuance from a CSR,     *)
(* direct submission, retrieval by address and the chain walk.             *)
(***************************************************************************)
EXTENDS Integers, Sequences, FiniteSets, TLC

(***************************************************************************)
(* Bounds of the model.                                                     *)
(***************************************************************************)
\* number of key pairs the server may generate (generate_private_key calls)
MaxKeys == 3
\* number of certificates the store may hold before requests that store are cut off
MaxStored == 4
\* number of loop iterations of the chain walk that the model unrolls
WalkFuel == 17
\* the longest byte string an address is computed of
MaxBytes == 3

(***************************************************************************)
(* Option and Result values.                                                *)
(***************************************************************************)
None == <<>>
Some(x) == <<x>>
IsSome(o) == o # <<>>
Unwrap(o) == o[1]

Ok(x) == [ok |-> TRUE, v |-> <<x>>, err |-> ""]
Err(e) == [ok |-> FALSE, v |-> <<>>, err |-> e]
Val(r) == r.v[1]

\* a finite map is a function; insertion overwrites (HashMap::insert)
EmptyMap == <<>>
Put(m, k, x) == [y \in (DOMAIN m) \cup {k} |-> IF y = k THEN x ELSE m[y]]
Has(m, k) == k \in DOMAIN m

(***************************************************************************)
(* multihash / multibase, as far as addressing.rs uses them.                *)
(* A digest is the abstract value "hash h of data d" (collision free); a    *)
(* multihash is <<code, length, digest>>; a multibase string is a prefix    *)
(* character and the payload written in the digits of one base.             *)
(***************************************************************************)
Hashes == {"SHA1", "SHA2256", "SHA2512"}
HashCode(h) == CASE h = "SHA1" -> 17 [] h = "SHA2256" -> 18 [] h = "SHA2512" -> 19
HashSize(h) == CASE h = "SHA1" -> 20 [] h = "SHA2256" -> 32 [] h = "SHA2512" -> 64
Digest(h, data) == [alg |-> h, of |-> data]
multihash_encode(h, data) == <<HashCode(h), HashSize(h), Digest(h, data)>>

Bases == {"Base64UrlUpperNoPad", "Base58btc", "Base16Lower"}
BasePrefix(b) == CASE b = "Base64UrlUpperNoPad" -> "u" [] b = "Base58btc" -> "z" [] b = "Base16Lower" -> "f"
multibase_encode(b, bytes) == [prefix |-> BasePrefix(b), digits |-> [radix |-> b, val |-> bytes]]
\* decoding fails on an unknown prefix and on digits that are not of the prefix's base
multibase_decode(s) ==
    IF \E b \in Bases : BasePrefix(b) = s.prefix /\ s.digits.radix = b
    THEN Ok(<<s.digits.radix, s.digits.val>>)
    ELSE Err("multibase")
\* Multihash::from_bytes: the code must be a known one and the length must fit
multihash_from_bytes(raw) ==
    IF \E h \in Hashes : HashCode(h) = raw[1] /\ HashSize(h) = raw[2] /\ raw[3].alg = h
    THEN Ok(raw)
    ELSE Err("multihash")
multihash_algorithm(multi) == CHOOSE h \in Hashes : HashCode(h) = multi[1]

CANONICAL_HASH == "SHA2256"
CANONICAL_BASE == "Base64UrlUpperNoPad"
ALTERNATIVE_HASHES == <<"SHA1">>

\* a primary address computed with the alternative hash
encode_to_sha1_address(data) ==
    multibase_encode(CANONICAL_BASE, multihash_encode(ALTERNATIVE_HASHES[1], data))

encode_to_canonical_address(data) ==
    multibase_encode(CANONICAL_BASE, multihash_encode(CANONICAL_HASH, data))

\* no alternate address at all
encode_to_no_alternative_addresses(data) == <<>>

encode_to_alternative_addresses(data) ==
    [i \in DOMAIN ALTERNATIVE_HASHES |->
        multibase_encode(CANONICAL_BASE, multihash_encode(ALTERNATIVE_HASHES[i], data))]

\* a normalisation that re-encodes in the base the address came in
convert_keeping_base(address) ==
    LET dec == multibase_decode(address) IN
    IF ~dec.ok THEN Err(dec.err)
    ELSE LET multi == multihash_from_bytes(Val(dec)[2]) IN
         IF ~multi.ok THEN Err(multi.err)
         ELSE Ok(<<multibase_encode(Val(dec)[1], Val(multi)), multihash_algorithm(Val(multi))>>)

convert_to_canonical_base(address) ==
    LET dec == multibase_decode(address) IN
    IF ~dec.ok THEN Err(dec.err)
    ELSE LET multi == multihash_from_bytes(Val(dec)[2]) IN
         IF ~multi.ok THEN Err(multi.err)
         ELSE Ok(<<multibase_encode(CANONICAL_BASE, Val(multi)), multihash_algorithm(Val(multi))>>)

(***************************************************************************)
(* Keys, certificates, CSRs and their encodings.                           *)
(* A key pair is a natural number; the key identifier of a public key is    *)
(* the digest of the key, identified with the number of the pair.  A        *)
(* certificate keeps the fields the server reads.                           *)
(***************************************************************************)
\* key pairs of clients, of the operator's CA material, and the n-th key pair
\* that generate_private_key returns: all distinct
ClientKeys == {1, 2}
OperatorRootKey == 3
OperatorIntermediateKey == 4
GeneratedKey(n) == OperatorIntermediateKey + n

to_public_key(pk) == pk
\* the key identifier is a byte string
SkiOf(pub) == <<pub>>
hex_encode(bytes) == <<"hex", bytes>>
to_pkcs8(pk) == <<"pkcs8", pk>>
parse_pk_from_magic_der(key_der) ==
    IF key_der[1] = "pkcs8" /\ key_der[2] > 0 THEN Ok(key_der[2]) ELSE Err("key")

to_der(cert) == [der |-> Some(cert)]
GarbageDer == [der |-> None]
from_der(d) == IF IsSome(d.der) THEN Ok(Unwrap(d.der)) ELSE Err("der")
to_pem(label, data) == [label |-> label, data |-> data]

find_common_name(dn) == dn
subject_key_identifier(cert) == IF IsSome(cert.ski) THEN Ok(Unwrap(cert.ski)) ELSE Err("no SKI")
authority_key_identifier(cert) == IF IsSome(cert.aki) THEN Ok(Unwrap(cert.aki)) ELSE Err("no AKI")

\* Picky::generate_root: self-issued, AKI = SKI
generate_root(name, pk) ==
    [subject |-> Some(name), issuer |-> Some(name),
     ski |-> Some(SkiOf(to_public_key(pk))), aki |-> Some(SkiOf(to_public_key(pk))),
     spki |-> to_public_key(pk), serial |-> 0, signer |-> pk]

\* Picky::generate_intermediate: issued and signed by the root
generate_intermediate(name, pub, root_cert, root_key) ==
    [subject |-> Some(name), issuer |-> root_cert.subject,
     ski |-> Some(SkiOf(pub)), aki |-> root_cert.ski,
     spki |-> pub, serial |-> 0, signer |-> root_key]

\* Picky::generate_leaf_from_csr: the CSR's self-signature is verified first
generate_leaf_from_csr(csr, ca_cert, ca_pk, dns_name, serial) ==
    IF ~csr.sig_ok THEN Err("CsrInvalid")
    ELSE Ok([subject |-> csr.subject, issuer |-> ca_cert.subject,
             ski |-> Some(SkiOf(csr.pk)), aki |-> ca_cert.ski,
             spki |-> csr.pk, serial |-> serial, signer |-> ca_pk])

\* Cert::verify_chain at a date inside every validity window: the chain is not
\* empty, every certificate is issued and signed by the next one of the chain (the
\* leaf by the first), and the last one is signed with its own key
SignedBy(cert, issuer_cert) ==
    /\ cert.issuer = issuer_cert.subject
    /\ to_public_key(cert.signer) = issuer_cert.spki
verify_chain(leaf, chain) ==
    /\ chain # <<>>
    /\ SignedBy(leaf, chain[1])
    /\ \A i \in 1..(Len(chain) - 1) : SignedBy(chain[i], chain[i + 1])
    /\ SignedBy(chain[Len(chain)], chain[Len(chain)])

RootName(realm) == realm \o " Root CA"
AuthorityName(realm) == realm \o " Authority"

(***************************************************************************)
(* The certificate store: a primary map from canonical address to the DER  *)
(* certificate, a map from canonical address to the private key, and the    *)
(* three secondary indexes (name, key identifier, alternate address).       *)
(***************************************************************************)
EmptyStorage ==
    [cert |-> EmptyMap, keys |-> EmptyMap, name |-> EmptyMap,
     key_identifiers |-> EmptyMap, hash_lookup |-> EmptyMap]

CertificateEntry(name, cert_der, key_identifier, key) ==
    [name |-> name, cert |-> cert_der, key_identifier |-> key_identifier, key |-> key]

RECURSIVE PutAll(_, _, _)
PutAll(m, ks, x) == IF ks = <<>> THEN m ELSE PutAll(Put(m, Head(ks), x), Tail(ks), x)

\* a store that, finding the address taken, drops the index entries that lead to
\* it and then skips the insertion
store_skipping_duplicates(st, entry) ==
    LET addressing_hash == encode_to_canonical_address(entry.cert)
        alternative_addresses == encode_to_alternative_addresses(entry.cert)
        Others(m) == [k \in {x \in DOMAIN m : m[x] # addressing_hash} |-> m[k]]
    IN  IF Has(st.cert, addressing_hash)
        THEN [st EXCEPT !.name = Others(st.name),
                        !.key_identifiers = Others(st.key_identifiers),
                        !.hash_lookup = Others(st.hash_lookup)]
        ELSE
        [cert |-> Put(st.cert, addressing_hash, entry.cert),
         keys |-> IF IsSome(entry.key) THEN Put(st.keys, addressing_hash, Unwrap(entry.key))
                  ELSE st.keys,
         name |-> Put(st.name, entry.name, addressing_hash),
         key_identifiers |-> Put(st.key_identifiers, entry.key_identifier, addressing_hash),
         hash_lookup |-> PutAll(st.hash_lookup, alternative_addresses, addressing_hash)]

store(st, entry) ==
    LET addressing_hash == encode_to_canonical_address(entry.cert)
        alternative_addresses == encode_to_alternative_addresses(entry.cert)
    IN  [cert |-> Put(st.cert, addressing_hash, entry.cert),
         keys |-> IF IsSome(entry.key) THEN Put(st.keys, addressing_hash, Unwrap(entry.key))
                  ELSE st.keys,
         name |-> Put(st.name, entry.name, addressing_hash),
         key_identifiers |-> Put(st.key_identifiers, entry.key_identifier, addressing_hash),
         hash_lookup |-> PutAll(st.hash_lookup, alternative_addresses, addressing_hash)]

get_cert_by_addressing_hash(st, hash) ==
    IF Has(st.cert, hash) THEN Ok(st.cert[hash]) ELSE Err("NotFound")
get_key_by_addressing_hash(st, hash) ==
    IF Has(st.keys, hash) THEN Ok(st.keys[hash]) ELSE Err("NoKey")
get_addressing_hash_by_name(st, name) ==
    IF Has(st.name, name) THEN Ok(st.name[name]) ELSE Err("NotFound")
get_addressing_hash_by_key_identifier(st, key_identifier) ==
    IF Has(st.key_identifiers, key_identifier) THEN Ok(st.key_identifiers[key_identifier])
    ELSE Err("NotFound")
lookup_addressing_hash(st, lookup_key) ==
    IF Has(st.hash_lookup, lookup_key) THEN Ok(st.hash_lookup[lookup_key]) ELSE Err("NotFound")

\* A handler's view of the store: the store, the storage calls made so far
\* and the entries handed to store so far.
Ctx(st) == [st |-> st, calls |-> <<>>, stored |-> <<>>]
Log(c, f) == [c EXCEPT !.calls = Append(@, f)]
DoStore(c, entry) ==
    [c EXCEPT !.st = store(c.st, entry), !.calls = Append(c.calls, "store"),
              !.stored = Append(c.stored, entry)]

\* A handler's view of a store whose backend fails the name-index queries for the
\* names in failing (an error that is not "no such name") while the handler runs.
CtxDuring(st, failing) == [st |-> st, calls |-> <<>>, stored |-> <<>>, failing |-> failing]
Failing(c) == IF "failing" \in DOMAIN c THEN c.failing ELSE {}
\* a store call whose error result goes unnoticed
StoreFailsNever(c) == FALSE

\* storage.store(...).await returns Err (the model's failed store writes nothing)
StoreFails(c) == "store" \in Failing(c)

NameLookup(c, name) ==
    IF name \in Failing(c) THEN Err("Unavailable") ELSE get_addressing_hash_by_name(c.st, name)
Ret(c, res) == [c |-> c, res |-> res]

(***************************************************************************)
(* Bootstrap: generate or inject the root CA, then the intermediate CA.     *)
(* n is the number of key pairs generated so far; every operator returns    *)
(* the handler's view c, its result res and the new n.                      *)
(***************************************************************************)
\* String::is_empty on an address returned by the store
is_empty(address) == address.prefix = "" /\ address.digits.val = <<>>

BootRet(c, res, n) == [c |-> c, res |-> res, n |-> n]

\* generate_root_ca after its "already exists" check: make, sign and store a root
GenerateRoot(config, c1, n) ==
    LET name == RootName(config.realm)
        pk == GeneratedKey(n + 1)
        root == generate_root(name, pk)
        ski == subject_key_identifier(root)
        cert_der == to_der(root)
        pk_pkcs8 == to_pkcs8(pk)
    IN  IF ~ski.ok THEN BootRet(c1, Err("couldn't fetch subject key identifier"), n + 1)
        ELSE BootRet(DoStore(c1, CertificateEntry(name, cert_der,
                                   hex_encode(Val(ski)), Some(pk_pkcs8))),
                     Ok(TRUE), n + 1)

\* generate_root_ca without the "already exists" check
generate_root_ca_unchecked(config, c, n) ==
    GenerateRoot(config, Log(c, "get_addressing_hash_by_name"), n)

generate_root_ca(config, c, n) ==
    LET name == RootName(config.realm)
        certs == NameLookup(c, name)
        c1 == Log(c, "get_addressing_hash_by_name")
    IN  IF certs.ok /\ ~is_empty(Val(certs))
        THEN BootRet(c1, Ok(FALSE), n)
        ELSE GenerateRoot(config, c1, n)

\* an intermediate made without its root: signed by its own key
GenerateIntermediateWithoutRoot(config, c1, n) ==
    LET intermediate_name == AuthorityName(config.realm)
        pk == GeneratedKey(n + 1)
        intermediate_cert == generate_root(intermediate_name, pk)
    IN  BootRet(DoStore(c1, CertificateEntry(intermediate_name, to_der(intermediate_cert),
                                             hex_encode(Val(subject_key_identifier(intermediate_cert))),
                                             Some(to_pkcs8(pk)))),
                Ok(TRUE), n + 1)

\* generate_intermediate_ca after its "already exists" check: fetch the root and
\* its key, make an intermediate signed by the root and store it
GenerateIntermediate(config, c1, n) ==
    LET root_name == RootName(config.realm)
        intermediate_name == AuthorityName(config.realm)
        root_hash == get_addressing_hash_by_name(c1.st, root_name)
        c2 == Log(c1, "get_addressing_hash_by_name")
    IN  IF ~root_hash.ok THEN BootRet(c2, Err("error while fetching root"), n)
        ELSE
        LET root_cert_der == get_cert_by_addressing_hash(c2.st, Val(root_hash))
            c3 == Log(c2, "get_cert_by_addressing_hash")
        IN  IF ~root_cert_der.ok THEN BootRet(c3, Err("couldn't fetch root CA"), n)
            ELSE
            LET root_key_der == get_key_by_addressing_hash(c3.st, Val(root_hash))
                c4 == Log(c3, "get_key_by_addressing_hash")
            IN  IF ~root_key_der.ok
                THEN BootRet(c4, Err("couldn't fetch root CA private key"), n)
                ELSE
                LET pk == GeneratedKey(n + 1)
                    root_cert == from_der(Val(root_cert_der))
                    root_key == parse_pk_from_magic_der(Val(root_key_der))
                IN  IF ~root_cert.ok
                    THEN BootRet(c4, Err("couldn't parse root cert from der"), n + 1)
                    ELSE IF ~root_key.ok
                    THEN BootRet(c4, Err("couldn't parse root key"), n + 1)
                    ELSE
                    LET intermediate_cert ==
                            generate_intermediate(intermediate_name, to_public_key(pk),
                                                  Val(root_cert), Val(root_key))
                        ski == subject_key_identifier(intermediate_cert)
                    IN  IF ~ski.ok THEN BootRet(c4, Err("couldn't fetch key id"), n + 1)
                        ELSE BootRet(DoStore(c4, CertificateEntry(intermediate_name,
                                                   to_der(intermediate_cert),
                                                   hex_encode(Val(ski)),
                                                   Some(to_pkcs8(pk)))),
                                     Ok(TRUE), n + 1)

\* generate_intermediate_ca without the "already exists" check
generate_intermediate_ca_unchecked(config, c, n) ==
    GenerateIntermediate(config, Log(c, "get_addressing_hash_by_name"), n)

generate_intermediate_ca(config, c, n) ==
    LET intermediate_name == AuthorityName(config.realm)
        certs == NameLookup(c, intermediate_name)
        c1 == Log(c, "get_addressing_hash_by_name")
    IN  IF certs.ok /\ ~is_empty(Val(certs))
        THEN BootRet(c1, Ok(FALSE), n)
        ELSE GenerateIntermediate(config, c1, n)

\* a check that takes every subject name for the expected one
IsUnexpectedSubjectNever(subject_name, expected_subject_name) == FALSE

\* if subject_name != expected_subject_name
IsUnexpectedSubject(subject_name, expected_subject_name) == subject_name # expected_subject_name

\* cert_key_pair.cert is the DER read from the configuration (inline or from a
\* file), cert_key_pair.key the key DER; no storage call precedes the store
inject_config_provided_cert(expected_subject_name, cert_key_pair, c) ==
    LET cert == from_der(cert_key_pair.cert) IN
    IF ~cert.ok THEN Ret(c, Err("couldn't parse cert"))
    ELSE
    LET ski == subject_key_identifier(Val(cert))
        subject_name == find_common_name(Val(cert).subject)
    IN  IF ~ski.ok THEN Ret(c, Err("couldn't parse fetch subject key identifier"))
        ELSE IF ~IsSome(subject_name) THEN Ret(c, Err("couldn't find subject common name"))
        ELSE IF IsUnexpectedSubject(Unwrap(subject_name), expected_subject_name)
        THEN Ret(c, Err("unexpected subject name"))
        ELSE Ret(DoStore(c, CertificateEntry(Unwrap(subject_name), cert_key_pair.cert,
                                              hex_encode(Val(ski)), Some(cert_key_pair.key))),
                 Ok(TRUE))

\* the root slot of init_storage_from_config
InitRootSlot(config, c, n) ==
    IF IsSome(config.root)
    THEN LET r == inject_config_provided_cert(RootName(config.realm), Unwrap(config.root), c)
         IN  BootRet(r.c, r.res, n)
    ELSE generate_root_ca(config, c, n)

\* the intermediate slot of init_storage_from_config
InitIntermediateSlot(config, c, n) ==
    IF IsSome(config.intermediate)
    THEN LET r == inject_config_provided_cert(AuthorityName(config.realm),
                                              Unwrap(config.intermediate), c)
         IN  BootRet(r.c, r.res, n)
    ELSE generate_intermediate_ca(config, c, n)

\* a bootstrap that goes on to the intermediate slot after the root slot has failed
init_storage_from_config_past_root_failure(c, config, n) ==
    LET r == InitRootSlot(config, c, n)
        i == InitIntermediateSlot(config, r.c, r.n)
    IN  IF ~r.res.ok THEN BootRet(i.c, Err("couldn't inject or generate root CA"), i.n)
        ELSE IF ~i.res.ok THEN BootRet(i.c, Err("couldn't inject or generate intermediate CA"), i.n)
        ELSE BootRet(i.c, Ok(TRUE), i.n)

init_storage_from_config(c, config, n) ==
    LET r == InitRootSlot(config, c, n) IN
    IF ~r.res.ok THEN BootRet(r.c, Err("couldn't inject or generate root CA"), r.n)
    ELSE LET i == InitIntermediateSlot(config, r.c, r.n) IN
         IF ~i.res.ok THEN BootRet(i.c, Err("couldn't inject or generate intermediate CA"), i.n)
         ELSE BootRet(i.c, Ok(TRUE), i.n)

(***************************************************************************)
(* Issuance.                                                                *)
(***************************************************************************)
\* a configuration that stores every issued leaf, whatever it says
SaveIssuedAlways(config) == TRUE

\* if config.save_certificate
SaveIssued(config) == config.save_certificate

sign_certificate(ca_name, csr, config, c, serial) ==
    LET ca_hash == get_addressing_hash_by_name(c.st, ca_name)
        c1 == Log(c, "get_addressing_hash_by_name")
    IN  IF ~ca_hash.ok THEN Ret(c1, Err("couldn't fetch CA"))
        ELSE
        LET ca_cert_der == get_cert_by_addressing_hash(c1.st, Val(ca_hash))
            c2 == Log(c1, "get_cert_by_addressing_hash")
        IN  IF ~ca_cert_der.ok THEN Ret(c2, Err("couldn't get CA cert der"))
            ELSE IF ~from_der(Val(ca_cert_der)).ok THEN Ret(c2, Err("couldn't deserialize CA cert"))
            ELSE
            LET ca_cert == Val(from_der(Val(ca_cert_der)))
                ca_pk_der == get_key_by_addressing_hash(c2.st, Val(ca_hash))
                c3 == Log(c2, "get_key_by_addressing_hash")
            IN  IF ~ca_pk_der.ok THEN Ret(c3, Err("couldn't fetch CA private key"))
                ELSE IF ~parse_pk_from_magic_der(Val(ca_pk_der)).ok
                THEN Ret(c3, Err("couldn't parse CA private key"))
                ELSE
                LET ca_pk == Val(parse_pk_from_magic_der(Val(ca_pk_der)))
                    dns_name == find_common_name(csr.subject)
                IN  IF ~IsSome(dns_name)
                    THEN Ret(c3, Err("couldn't find signed cert subject common name"))
                    ELSE
                    LET signed_cert == generate_leaf_from_csr(csr, ca_cert, ca_pk,
                                                              Unwrap(dns_name), serial)
                    IN  IF ~signed_cert.ok
                        THEN Ret(c3, Err("couldn't generate leaf certificate"))
                        ELSE IF ~SaveIssued(config) THEN Ret(c3, Ok(Val(signed_cert)))
                        ELSE
                        LET cert_der == to_der(Val(signed_cert))
                            ski == subject_key_identifier(Val(signed_cert))
                        IN  IF ~ski.ok THEN Ret(c3, Err("couldn't get SKI"))
                            ELSE IF StoreFails(c3)
                            THEN Ret(Log(c3, "store"), Err("insertion error for leaf"))
                            ELSE Ret(DoStore(c3, CertificateEntry(Unwrap(dns_name), cert_der,
                                                   hex_encode(Val(ski)), None)),
                                     Ok(Val(signed_cert)))

\* the formats a response can be asked in; Json is not one a certificate is returned in
ResponseFormats == {"PemFile", "PkixCertBinary", "PkixCertBase64"}
Response(c, status, body) == [c |-> c, status |-> status, body |-> body]

\* a name check that lets every subject name pass
NameIsLockedOutNever(locked_subject_name, subject_name) == FALSE

\* if locked_subject_name != subject_name
NameIsLockedOut(locked_subject_name, subject_name) == locked_subject_name # subject_name

\* req.auth is what check_authorization yields for the request: kind "Denied",
\* "ApiKey" or "Token", with the token's sub claim (None when the claims do not parse);
\* req.csr is the parsed CSR, None when the body does not decode
cert_signature_request(config, st, req, serial) ==
    LET c == Ctx(st) IN
    IF req.auth.kind = "Denied" THEN Response(c, "UNAUTHORIZED", None)
    ELSE IF req.auth.kind = "Token" /\ ~IsSome(req.auth.sub) THEN Response(c, "BAD_REQUEST", None)
    ELSE
    LET locked_subject_name == IF req.auth.kind = "ApiKey" THEN None ELSE req.auth.sub IN
    IF ~IsSome(req.csr) THEN Response(c, "BAD_REQUEST", None)
    ELSE
    LET csr == Unwrap(req.csr) IN
    IF IsSome(locked_subject_name) /\ ~IsSome(find_common_name(csr.subject))
    THEN Response(c, "BAD_REQUEST", None)
    ELSE IF IsSome(locked_subject_name)
            /\ NameIsLockedOut(Unwrap(locked_subject_name), Unwrap(find_common_name(csr.subject)))
    THEN Response(c, "UNAUTHORIZED", None)
    ELSE
    LET ca_name == AuthorityName(config.realm)
        signed == sign_certificate(ca_name, csr, config, c, serial)
    IN  IF ~signed.res.ok THEN Response(signed.c, "INTERNAL_SERVER_ERROR", None)
        ELSE IF req.accept \in ResponseFormats
        THEN Response(signed.c, "OK", Some([format |-> req.accept,
                                            data |-> to_der(Val(signed.res))]))
        ELSE Response(signed.c, "BAD_REQUEST", None)

(***************************************************************************)
(* Direct submission of a certificate.                                     *)
(***************************************************************************)
\* an issuer check that lets every issuer name pass
IsForeignIssuerNever(issuer_name, realm) == FALSE

\* if issuer_name != format!("{} Authority", realm)
IsForeignIssuer(issuer_name, realm) == issuer_name # AuthorityName(realm)

\* req.cert is the DER the request body decodes to (GarbageDer when it does not parse)
post_cert(config, st, req) ==
    LET c == Ctx(st)
        cert == from_der(req.cert)
    IN  IF ~cert.ok THEN Response(c, "BAD_REQUEST", None)
        ELSE IF ~subject_key_identifier(Val(cert)).ok THEN Response(c, "BAD_REQUEST", None)
        ELSE
        LET ski == hex_encode(Val(subject_key_identifier(Val(cert))))
            issuer_name == find_common_name(Val(cert).issuer)
        IN  IF ~IsSome(issuer_name) THEN Response(c, "BAD_REQUEST", None)
            ELSE IF IsForeignIssuer(Unwrap(issuer_name), config.realm)
            THEN Response(c, "UNAUTHORIZED", None)
            ELSE
            LET subject_name == find_common_name(Val(cert).subject) IN
            IF ~IsSome(subject_name) THEN Response(c, "BAD_REQUEST", None)
            ELSE Response(DoStore(c, CertificateEntry(Unwrap(subject_name), req.cert, ski, None)),
                          "OK", None)

(***************************************************************************)
(* Retrieval by address.                                                    *)
(***************************************************************************)
\* a test that takes every digest algorithm for the canonical one
IsCanonicalAlways(hash) == TRUE

\* if hash == CANONICAL_HASH
IsCanonical(hash) == hash = CANONICAL_HASH

get_cert(st, req) ==
    LET c == Ctx(st)
        conv == convert_to_canonical_base(req.multihash)
    IN  IF ~conv.ok THEN Response(c, "INTERNAL_SERVER_ERROR", None)
        ELSE
        LET addressing_hash == Val(conv)[1]
            hash == Val(conv)[2]
            converted == lookup_addressing_hash(c.st, addressing_hash)
            c1 == IF IsCanonical(hash) THEN c ELSE Log(c, "lookup_addressing_hash")
        IN  IF ~IsCanonical(hash) /\ ~converted.ok
            THEN Response(c1, "INTERNAL_SERVER_ERROR", None)
            ELSE
            LET canonical_address == IF IsCanonical(hash) THEN addressing_hash
                                     ELSE Val(converted)
                cert_der == get_cert_by_addressing_hash(c1.st, canonical_address)
                c2 == Log(c1, "get_cert_by_addressing_hash")
            IN  IF ~cert_der.ok THEN Response(c2, "NOT_FOUND", None)
                ELSE IF req.accept \in ResponseFormats
                THEN Response(c2, "OK", Some([format |-> req.accept, data |-> Val(cert_der)]))
                ELSE Response(c2, "BAD_REQUEST", None)

(***************************************************************************)
(* The chain walk.  The loop has no bound of its own: the model unrolls    *)
(* WalkFuel iterations and reports a walk still running after that as not   *)
(* returned.  hops counts the key-identifier lookups of the walk.           *)
(***************************************************************************)
WalkRet(c, res, hops, returned) == [c |-> c, res |-> res, hops |-> hops, returned |-> returned]

RECURSIVE WalkLoop(_, _, _, _, _)
WalkLoop(c, cert_der, chain, current_key_id, hops) ==
    IF hops >= WalkFuel THEN WalkRet(c, Err("still walking"), hops, FALSE)
    ELSE
    LET cert == from_der(cert_der) IN
    IF ~cert.ok THEN WalkRet(c, Err("couldn't deserialize certificate"), hops, TRUE)
    ELSE IF ~authority_key_identifier(Val(cert)).ok
    THEN WalkRet(c, Err("couldn't fetch authority key identifier"), hops, TRUE)
    ELSE
    LET parent_key_id == hex_encode(Val(authority_key_identifier(Val(cert)))) IN
    IF current_key_id = parent_key_id THEN WalkRet(c, Ok(chain), hops, TRUE)
    ELSE
    LET hash_address == get_addressing_hash_by_key_identifier(c.st, parent_key_id)
        c1 == Log(c, "get_addressing_hash_by_key_identifier")
    IN  IF ~hash_address.ok THEN WalkRet(c1, Err("couldn't fetch hash"), hops + 1, TRUE)
        ELSE
        LET next_der == get_cert_by_addressing_hash(c1.st, Val(hash_address))
            c2 == Log(c1, "get_cert_by_addressing_hash")
        IN  IF ~next_der.ok THEN WalkRet(c2, Err("couldn't fetch certificate der"), hops + 1, TRUE)
            ELSE WalkLoop(c2, Val(next_der), Append(chain, to_pem("CERTIFICATE", Val(next_der))),
                          parent_key_id, hops + 1)

find_ca_chain(c, ca_name) ==
    LET ca_hash == get_addressing_hash_by_name(c.st, ca_name)
        c1 == Log(c, "get_addressing_hash_by_name")
    IN  IF ~ca_hash.ok THEN WalkRet(c1, Err("couldn't fetch CA hash id"), 0, TRUE)
        ELSE
        LET cert_der == get_cert_by_addressing_hash(c1.st, Val(ca_hash))
            c2 == Log(c1, "get_cert_by_addressing_hash")
        IN  IF ~cert_der.ok THEN WalkRet(c2, Err("couldn't fetch CA certificate der"), 0, TRUE)
            ELSE WalkLoop(c2, Val(cert_der), <<to_pem("CERTIFICATE", Val(cert_der))>>,
                          hex_encode(<<>>), 0)

get_default_chain(config, st) ==
    LET ca == AuthorityName(config.realm)
        chain == find_ca_chain(Ctx(st), ca)
    IN  [c |-> chain.c,
         status |-> IF ~chain.returned THEN "RUNNING" ELSE IF chain.res.ok THEN "OK" ELSE "NOT_FOUND",
         body |-> IF chain.returned /\ chain.res.ok THEN Some(Val(chain.res)) ELSE None,
         hops |-> chain.hops]

(***************************************************************************)
(* Inputs: configurations and requests.                                     *)
(***************************************************************************)
Realms == {"Picky", "Corp"}

\* CA material an operator may put in the configuration (made outside the server)
OperatorRoot == generate_root(RootName("Picky"), OperatorRootKey)
OperatorIntermediate ==
    generate_intermediate(AuthorityName("Picky"), to_public_key(OperatorIntermediateKey),
                          OperatorRoot, OperatorRootKey)
RootPairs == {[cert |-> to_der(OperatorRoot), key |-> to_pkcs8(OperatorRootKey)]}
IntermediatePairs ==
    {[cert |-> to_der(OperatorIntermediate), key |-> to_pkcs8(OperatorIntermediateKey)]}

Configs ==
    [realm : Realms, save_certificate : BOOLEAN,
     root : {None} \cup {Some(p) : p \in RootPairs},
     intermediate : {None} \cup {Some(p) : p \in IntermediatePairs},
     database_url : {"mongodb://db0"}, file_backend_path : {"/data0"}, backend : {"MongoDb"}]

CsrNames == {"Mister Bushido", AuthorityName("Picky")}
LockedNames == {"Mister Bushido", "Alice"}
CsrKeys == {1}
Csrs == [subject : {None} \cup {Some(x) : x \in CsrNames}, pk : CsrKeys, sig_ok : BOOLEAN]
\* the serial numbers the leaf builder may draw
Serials == {1, 2}
Auths == {[kind |-> "Denied", sub |-> None], [kind |-> "ApiKey", sub |-> None],
          [kind |-> "Token", sub |-> None]}
         \cup {[kind |-> "Token", sub |-> Some(x)] : x \in LockedNames}
Accepts == {"PemFile", "Json"}
SignRequests == [auth : Auths, csr : {None} \cup {Some(x) : x \in Csrs}, accept : Accepts]

\* certificates a client may submit: any names and key identifiers, signed by
\* a key the server does not know
SubmittedKeyIds == {None} \cup {Some(SkiOf(k)) : k \in ClientKeys}
SubmittedCerts ==
    [subject : {None, Some("Mister Bushido"), Some(AuthorityName("Picky"))},
     issuer : {None, Some("Evil CA"), Some(AuthorityName("Picky"))},
     ski : SubmittedKeyIds, aki : SubmittedKeyIds,
     spki : {to_public_key(1)}, serial : {1}, signer : {0}]
PostRequests == {[cert |-> GarbageDer]} \cup {[cert |-> to_der(x)] : x \in SubmittedCerts}

(***************************************************************************)
(* The server.                                                              *)
(*   storage  the certificate store                                         *)
(*   config   the configuration behind the controller's lock (before the    *)
(*            controller is built: the configuration the process loaded)    *)
(*   phase    "starting", "serving" (the controller is built) or            *)
(*            "panicked" (HttpServer::new panicked)                         *)
(*   nkeys    the number of key pairs generated so far                      *)
(*   last     the last handler that ran: its inputs, its result, the        *)
(*            storage calls it made and the entries it stored               *)
(***************************************************************************)
VARIABLES storage, config, phase, nkeys, last, handle, tasks

vars == <<storage, config, phase, nkeys, last, handle, tasks>>

NoSlots == <<>>

\* get_storage: the backend the controller's storage handle is opened on
get_storage(conf) ==
    Some([backend |-> conf.backend, database_url |-> conf.database_url,
          file_backend_path |-> conf.file_backend_path])

\* a reload that opens the storage the new configuration names
storage_reopened(storage_handle, new_conf) == get_storage(new_conf)

\* reload_yaml_conf_impl assigns the configuration only: the controller's storage
\* field is left as ServerController::new set it
storage_after_reload(storage_handle, new_conf) == storage_handle

\* a reload that assigns the new configuration before the bootstrap run has returned
config_swapped_first(old_conf, new_conf, res) == new_conf

\* init_storage_from_config(...).await? comes before write_conf(): *old_conf = new_conf
\* is reached only when the bootstrap run returned Ok
config_after_reload(old_conf, new_conf, res) == IF res.ok THEN new_conf ELSE old_conf

Warn(cond, msg) == IF cond THEN <<msg>> ELSE <<>>

\* the warnings reload_yaml_conf_impl logs while it holds the write lock
immutable_field_warnings(old_conf, new_conf) ==
    Warn(old_conf.database_url # new_conf.database_url,
         "'database_url' modification require service restart")
    \o Warn(old_conf.file_backend_path # new_conf.file_backend_path,
            "'file_backend_path' modification require service restart")
    \o Warn(old_conf.backend # new_conf.backend,
            "'backend' modification require service restart")

\* a server that is built whatever ServerController::new returns
build_controller_anyway(res) == "serving"

\* HttpServer::new: the controller is built, or the process panics
build_controller(res) == IF res.ok THEN "serving" ELSE "panicked"

\* the requests that may be in flight at the same time
TaskIds == {1, 2}
Idle == [kind |-> "idle"]
BootOps == {"startup", "reload"}
\* changed: the handler changed the store; rerun: the handler is a bootstrap run that
\* directly follows a bootstrap run under the same configuration
Last(op, arg, status, c, body, hops, slots) ==
    [op |-> op, arg |-> arg, status |-> status, calls |-> c.calls, stored |-> c.stored,
     body |-> body, hops |-> hops, slots |-> slots,
     changed |-> c.st # storage,
     rerun |-> op \in BootOps /\ last.op \in BootOps /\ IsSome(arg) /\ last.arg = arg,
     warnings |-> IF op = "reload" /\ IsSome(arg) /\ status = "OK"
                  THEN immutable_field_warnings(config, Unwrap(arg)) ELSE <<>>]

\* what a bootstrap run did per slot: whether the slot's name was indexed when the
\* slot was examined, whether the configuration supplies a pair for it, how many store
\* calls it made, whether it changed the store, how many key pairs it generated
SlotReport(name, injected, before, n, r) ==
    [present |-> Has(before.st.name, name), injected |-> injected, ok |-> r.res.ok,
     stores |-> Len(r.c.stored) - Len(before.stored), changed |-> r.c.st # before.st,
     generated |-> r.n - n]
BootSlots(cfg, st, n) ==
    LET r == InitRootSlot(cfg, Ctx(st), n) IN
    IF ~r.res.ok THEN <<SlotReport(RootName(cfg.realm), IsSome(cfg.root), Ctx(st), n, r)>>
    ELSE <<SlotReport(RootName(cfg.realm), IsSome(cfg.root), Ctx(st), n, r),
           SlotReport(AuthorityName(cfg.realm), IsSome(cfg.intermediate), r.c, r.n,
                      InitIntermediateSlot(cfg, r.c, r.n))>>

NoLast ==
    [op |-> "none", arg |-> None, status |-> "OK", calls |-> <<>>, stored |-> <<>>,
     body |-> None, hops |-> 0, slots |-> NoSlots, changed |-> FALSE, rerun |-> FALSE,
     warnings |-> <<>>]

\* the process has loaded one of the configurations cfgs; the store is empty
InitWith(cfgs) ==
    /\ storage = EmptyStorage
    /\ config \in cfgs
    /\ phase = "starting"
    /\ nkeys = 0
    /\ last = NoLast
    /\ handle = None
    /\ tasks = [t \in TaskIds |-> Idle]

Init == InitWith(Configs)

\* the configurations of realm "Picky" that supply no CA material
FreshConfigs == {c \in Configs : c.realm = "Picky" /\ ~IsSome(c.root) /\ ~IsSome(c.intermediate)}
InitFresh == InitWith(FreshConfigs)

\* ServerController::new within HttpServer::new
Startup ==
    /\ phase = "starting"
    /\ LET b == init_storage_from_config(Ctx(storage), config, nkeys) IN
       /\ b.n <= MaxKeys
       /\ storage' = b.c.st
       /\ nkeys' = b.n
       /\ phase' = build_controller(b.res)
       /\ last' = Last("startup", Some(config), IF b.res.ok THEN "OK" ELSE "ERROR", b.c, None, 0,
                       BootSlots(config, storage, nkeys))
    /\ handle' = get_storage(config)
    /\ UNCHANGED <<config, tasks>>

\* reload_yaml_conf: new_conf is what Config::init_yaml loads
Reload(new_conf) ==
    /\ phase = "serving"
    /\ LET b == init_storage_from_config(Ctx(storage), new_conf, nkeys) IN
       /\ b.n <= MaxKeys
       /\ storage' = b.c.st
       /\ nkeys' = b.n
       /\ config' = config_after_reload(config, new_conf, b.res)
       /\ last' = Last("reload", Some(new_conf),
                       IF b.res.ok THEN "OK" ELSE "INTERNAL_SERVER_ERROR", b.c, None, 0,
                       BootSlots(new_conf, storage, nkeys))
    /\ handle' = storage_after_reload(handle, new_conf)
    /\ UNCHANGED <<phase, tasks>>

\* a handler's argument with the backend calls that fail while it runs
DuringOutage(arg, failing) ==
    [f \in DOMAIN arg \cup {"failing"} |-> IF f = "failing" THEN failing ELSE arg[f]]

\* a reload during which the backend fails the name-index queries for the names in
\* failing
ReloadDuringOutage(new_conf, failing) ==
    /\ phase = "serving"
    /\ LET b == init_storage_from_config(CtxDuring(storage, failing), new_conf, nkeys) IN
       /\ b.n <= MaxKeys
       /\ storage' = b.c.st
       /\ nkeys' = b.n
       /\ config' = config_after_reload(config, new_conf, b.res)
       /\ last' = Last("reload", Some(DuringOutage(new_conf, failing)),
                       IF b.res.ok THEN "OK" ELSE "INTERNAL_SERVER_ERROR", b.c, None, 0,
                       NoSlots)
    /\ handle' = storage_after_reload(handle, new_conf)
    /\ UNCHANGED <<phase, tasks>>

\* Config::init_yaml fails: nothing is run
ReloadUnreadable ==
    /\ phase = "serving"
    /\ last' = Last("reload", None, "INTERNAL_SERVER_ERROR", Ctx(storage), None, 0, NoSlots)
    /\ UNCHANGED <<storage, config, phase, nkeys, handle, tasks>>

StoreHasRoom == Cardinality(DOMAIN storage.cert) < MaxStored

Sign(req, serial) ==
    /\ phase = "serving"
    /\ StoreHasRoom
    /\ LET r == cert_signature_request(config, storage, req, serial) IN
       /\ storage' = r.c.st
       /\ last' = Last("sign", Some(req), r.status, r.c, r.body, 0, NoSlots)
    /\ UNCHANGED <<config, phase, nkeys, handle, tasks>>

\* cert_signature_request from its second read_conf() on, for a request that has
\* passed the authorization, while the backend fails the calls in failing
SignDuringOutage(req, serial, failing) ==
    /\ phase = "serving"
    /\ StoreHasRoom
    /\ LET signed == sign_certificate(AuthorityName(config.realm), Unwrap(req.csr), config,
                                      CtxDuring(storage, failing), serial)
       IN  /\ storage' = signed.c.st
           /\ last' = Last("sign", Some(DuringOutage(req, failing)),
                           IF signed.res.ok THEN "OK" ELSE "INTERNAL_SERVER_ERROR", signed.c,
                           IF signed.res.ok
                           THEN Some([format |-> req.accept, data |-> to_der(Val(signed.res))])
                           ELSE None, 0, NoSlots)
    /\ UNCHANGED <<config, phase, nkeys, handle, tasks>>

PostCert(req) ==
    /\ phase = "serving"
    /\ StoreHasRoom
    /\ LET r == post_cert(config, storage, req) IN
       /\ storage' = r.c.st
       /\ last' = Last("post_cert", Some(req), r.status, r.c, r.body, 0, NoSlots)
    /\ UNCHANGED <<config, phase, nkeys, handle, tasks>>

\* the addresses a client may present: any digest of a stored or a submitted
\* certificate, in any base, and strings that are no address
KnownDers == {storage.cert[a] : a \in DOMAIN storage.cert} \cup {GarbageDer}
PresentedAddresses ==
    {multibase_encode(b, multihash_encode(h, d)) : b \in Bases, h \in Hashes, d \in KnownDers}
    \cup {[prefix |-> "u", digits |-> [radix |-> "Base58btc",
                                       val |-> multihash_encode(CANONICAL_HASH, GarbageDer)]],
          multibase_encode(CANONICAL_BASE, <<HashCode(CANONICAL_HASH), HashSize("SHA1"),
                                             Digest(CANONICAL_HASH, GarbageDer)>>),
          multibase_encode(CANONICAL_BASE, <<0, 0, Digest("SHA1", GarbageDer)>>)}

GetCert(req) ==
    /\ phase = "serving"
    /\ LET r == get_cert(storage, req) IN
       last' = Last("get_cert", Some(req), r.status, r.c, r.body, 0, NoSlots)
    /\ UNCHANGED <<storage, config, phase, nkeys, handle, tasks>>

GetDefaultChain ==
    /\ phase = "serving"
    /\ LET r == get_default_chain(config, storage) IN
       last' = Last("chain", None, r.status, r.c, r.body, r.hops, NoSlots)
    /\ UNCHANGED <<storage, config, phase, nkeys, handle, tasks>>

(***************************************************************************)
(* Specifications.  Each runs the server's handlers on the inputs named in  *)
(* its next-state relation.                                                 *)
(***************************************************************************)
\* submissions that take the name of a CA
NameTakingCerts ==
    [subject : {Some(RootName("Picky")), Some(AuthorityName("Picky"))},
     issuer : {Some(AuthorityName("Picky"))},
     ski : {Some(SkiOf(1))}, aki : {Some(SkiOf(2))},
     spki : {to_public_key(1)}, serial : {1}, signer : {0}]
BootPostRequests == {[cert |-> to_der(x)] : x \in NameTakingCerts}

\* startup, reloads under every loadable configuration, and submissions that take a CA's name
NextBoot ==
    \/ Startup
    \/ \E new_conf \in Configs : Reload(new_conf)
    \/ \E req \in BootPostRequests : PostCert(req)

SpecBoot == Init /\ [][NextBoot]_vars

\* startup without CA material in the configuration, signing requests, chain requests
NextSign ==
    \/ Startup
    \/ \E req \in SignRequests, serial \in Serials : Sign(req, serial)
    \/ GetDefaultChain

SpecSign == InitFresh /\ [][NextSign]_vars

\* submissions under the intermediate's name or issued by one another
LinkedCerts ==
    [subject : {Some(AuthorityName("Picky"))}, issuer : {Some(AuthorityName("Picky"))},
     ski : {Some(SkiOf(1))}, aki : SubmittedKeyIds,
     spki : {to_public_key(1)}, serial : {1}, signer : {0}]
    \cup
    [subject : {Some("Mister Bushido")}, issuer : {Some(AuthorityName("Picky"))},
     ski : {Some(SkiOf(2))}, aki : {Some(SkiOf(1))},
     spki : {to_public_key(2)}, serial : {1}, signer : {0}]
ChainPostRequests == {[cert |-> to_der(x)] : x \in LinkedCerts}
ApiKeySignRequests ==
    {r \in SignRequests : r.auth.kind = "ApiKey" /\ r.accept = "PemFile" /\ IsSome(r.csr)
                          /\ Unwrap(r.csr).sig_ok /\ IsSome(Unwrap(r.csr).subject)}

\* startup, submissions that link to one another, issuance, chain requests
NextChain ==
    \/ Startup
    \/ \E req \in ChainPostRequests : PostCert(req)
    \/ \E req \in ApiKeySignRequests, serial \in Serials : Sign(req, serial)
    \/ GetDefaultChain

SpecChain == Init /\ [][NextChain]_vars

\* submissions of end-entity certificates
FetchCerts ==
    [subject : {Some("Mister Bushido")}, issuer : {Some(AuthorityName("Picky"))},
     ski : {Some(SkiOf(1)), Some(SkiOf(2))}, aki : {Some(SkiOf(1))},
     spki : {to_public_key(1)}, serial : {1}, signer : {0}]
FetchPostRequests == {[cert |-> to_der(x)] : x \in FetchCerts}
FetchRequests == [multihash : PresentedAddresses, accept : Accepts]

\* startup without CA material in the configuration, submissions, retrievals by address
NextFetch ==
    \/ Startup
    \/ \E req \in FetchPostRequests : PostCert(req)
    \/ \E req \in FetchRequests : GetCert(req)

SpecFetch == InitFresh /\ [][NextFetch]_vars

\* submissions that take the name of a realm's root
RootTakingCerts ==
    [subject : {Some(RootName(r)) : r \in Realms}, issuer : {Some(AuthorityName(r)) : r \in Realms},
     ski : {Some(SkiOf(1)), Some(SkiOf(2))}, aki : {Some(SkiOf(1))},
     spki : {to_public_key(1)}, serial : {1}, signer : {0}]
RootTakingRequests == {[cert |-> to_der(x)] : x \in RootTakingCerts}
\* the configurations that supply no CA material
GeneratingConfigs == {c \in Configs : ~IsSome(c.root) /\ ~IsSome(c.intermediate)}

\* startup, submissions under a root's name, reloads that have to generate
NextGenerate ==
    \/ Startup
    \/ \E req \in RootTakingRequests : PostCert(req)
    \/ \E new_conf \in GeneratingConfigs : Reload(new_conf)

SpecGenerate == InitWith(GeneratingConfigs) /\ [][NextGenerate]_vars

(***************************************************************************)
(* Requests in flight.  The handlers are async functions on a shared        *)
(* controller: a request may be suspended at any await of a storage call or  *)
(* of a lock while another request runs.  tasks[t] is what request t has    *)
(* done so far; the steps below cut reload_yaml_conf_impl and               *)
(* cert_signature_request at some of their awaits.                          *)
(***************************************************************************)
\* the handler's view of the store when request t resumes
At(t) == [st |-> storage, calls |-> tasks[t].calls, stored |-> tasks[t].stored]
Suspend(t, pc, c) == [tasks EXCEPT ![t] = [@ EXCEPT !.pc = pc, !.calls = c.calls, !.stored = c.stored]]
Finish(t) == [tasks EXCEPT ![t] = Idle]
\* a read guard of the configuration is held by a request that is signing
ReadLocked == \E t \in TaskIds : tasks[t].kind = "sign" /\ tasks[t].pc = "issuing"

\* reload_yaml_conf_impl: Config::init_yaml loads new_conf
ReloadRead(t, new_conf) ==
    /\ phase = "serving" /\ tasks[t] = Idle
    /\ tasks' = [tasks EXCEPT ![t] = [kind |-> "reload", pc |-> "root", conf |-> new_conf,
                                       calls |-> <<>>, stored |-> <<>>]]
    /\ UNCHANGED <<storage, config, phase, nkeys, last, handle>>

\* the root slot of init_storage_from_config up to the await of generate_root_ca's
\* get_addressing_hash_by_name (the injection runs to its end)
ReloadRootSlot(t) ==
    /\ tasks[t].kind = "reload" /\ tasks[t].pc = "root"
    /\ LET conf == tasks[t].conf IN
       IF IsSome(conf.root)
       THEN LET r == InitRootSlot(conf, At(t), nkeys) IN
            /\ storage' = r.c.st
            /\ IF r.res.ok
               THEN tasks' = Suspend(t, "intermediate", r.c) /\ UNCHANGED last
               ELSE /\ tasks' = Finish(t)
                    /\ last' = Last("reload", Some(conf), "INTERNAL_SERVER_ERROR", r.c, None, 0, NoSlots)
       ELSE LET certs == get_addressing_hash_by_name(storage, RootName(conf.realm))
                c1 == Log(At(t), "get_addressing_hash_by_name")
            IN  /\ tasks' = Suspend(t, IF certs.ok /\ ~is_empty(Val(certs))
                                       THEN "intermediate" ELSE "generate_root", c1)
                /\ UNCHANGED <<storage, last>>
    /\ UNCHANGED <<config, phase, nkeys, handle>>

\* generate_root_ca after the name was found absent: generate, sign and store
ReloadGenerateRoot(t) ==
    /\ tasks[t].kind = "reload" /\ tasks[t].pc = "generate_root"
    /\ nkeys < MaxKeys
    /\ LET r == GenerateRoot(tasks[t].conf, At(t), nkeys) IN
       /\ storage' = r.c.st
       /\ nkeys' = r.n
       /\ tasks' = Suspend(t, "intermediate", r.c)
    /\ UNCHANGED <<config, phase, last, handle>>

\* the intermediate slot of init_storage_from_config
ReloadIntermediateSlot(t) ==
    /\ tasks[t].kind = "reload" /\ tasks[t].pc = "intermediate"
    /\ LET conf == tasks[t].conf
           r == InitIntermediateSlot(conf, At(t), nkeys)
       IN  /\ r.n <= MaxKeys
           /\ storage' = r.c.st
           /\ nkeys' = r.n
           /\ IF r.res.ok
              THEN tasks' = Suspend(t, "swap", r.c) /\ UNCHANGED last
              ELSE /\ tasks' = Finish(t)
                   /\ last' = Last("reload", Some(conf), "INTERNAL_SERVER_ERROR", r.c, None, 0, NoSlots)
    /\ UNCHANGED <<config, phase, handle>>

\* write_conf().await and the assignment: the write lock waits for the readers
ReloadSwap(t) ==
    /\ tasks[t].kind = "reload" /\ tasks[t].pc = "swap"
    /\ ~ReadLocked
    /\ config' = tasks[t].conf
    /\ handle' = storage_after_reload(handle, tasks[t].conf)
    /\ last' = Last("reload", Some(tasks[t].conf), "OK", At(t), None, 0, NoSlots)
    /\ tasks' = Finish(t)
    /\ UNCHANGED <<storage, phase, nkeys>>

\* cert_signature_request up to the end of the subject name check: the read guard
\* taken for check_authorization is dropped with the statement; req is a request
\* that passes the authorization and the name check
SignAuthorize(t, req) ==
    /\ phase = "serving" /\ tasks[t] = Idle
    /\ tasks' = [tasks EXCEPT ![t] = [kind |-> "sign", pc |-> "authorized", req |-> req,
                                       auth_conf |-> config, conf |-> config,
                                       calls |-> <<>>, stored |-> <<>>]]
    /\ UNCHANGED <<storage, config, phase, nkeys, last, handle>>

\* let conf = controller_data.read_conf().await
SignReadConf(t) ==
    /\ tasks[t].kind = "sign" /\ tasks[t].pc = "authorized"
    /\ tasks' = [tasks EXCEPT ![t] = [@ EXCEPT !.pc = "issuing", !.conf = config]]
    /\ UNCHANGED <<storage, config, phase, nkeys, last, handle>>

\* sign_certificate under the read guard, drop(conf), and the response
SignIssue(t, serial) ==
    /\ tasks[t].kind = "sign" /\ tasks[t].pc = "issuing"
    /\ StoreHasRoom \/ ~tasks[t].conf.save_certificate
    /\ LET r == cert_signature_request(tasks[t].conf, storage, tasks[t].req, serial) IN
       /\ storage' = r.c.st
       /\ last' = Last("sign", Some(tasks[t].req), r.status, r.c, r.body, 0, NoSlots)
    /\ tasks' = Finish(t)
    /\ UNCHANGED <<config, phase, nkeys, handle>>

\* get_default_chain: the realm is read under a read guard that is dropped at the
\* end of the statement
ChainReadConf(t) ==
    /\ phase = "serving" /\ tasks[t] = Idle
    /\ tasks' = [tasks EXCEPT ![t] = [kind |-> "chain", pc |-> "walking",
                                       ca |-> AuthorityName(config.realm),
                                       calls |-> <<>>, stored |-> <<>>]]
    /\ UNCHANGED <<storage, config, phase, nkeys, last, handle>>

\* find_ca_chain and the response; a walk that does not return leaves the request
\* in flight
WalkReturns(t) ==
    /\ tasks[t].kind = "chain" /\ tasks[t].pc = "walking"
    /\ find_ca_chain(At(t), tasks[t].ca).returned
ChainWalk(t) ==
    /\ WalkReturns(t)
    /\ LET chain == find_ca_chain(At(t), tasks[t].ca) IN
       /\ last' = Last("chain", None, IF chain.res.ok THEN "OK" ELSE "NOT_FOUND", chain.c,
                       IF chain.res.ok THEN Some(Val(chain.res)) ELSE None, chain.hops, NoSlots)
    /\ tasks' = Finish(t)
    /\ UNCHANGED <<storage, config, phase, nkeys, handle>>

\* one configuration with the operator's CA material and one of another realm without
RaceConfigs ==
    {c \in Configs : /\ ~c.save_certificate
                     /\ \/ c.realm = "Picky" /\ IsSome(c.root) /\ IsSome(c.intermediate)
                        \/ c.realm = "Corp" /\ ~IsSome(c.root) /\ ~IsSome(c.intermediate)}
RaceSignRequests == {r \in ApiKeySignRequests : Unwrap(Unwrap(r.csr).subject) = "Mister Bushido"}

\* startup, then reloads and signing requests that run concurrently
NextRace ==
    \/ Startup
    \/ \E t \in TaskIds, new_conf \in RaceConfigs : ReloadRead(t, new_conf)
    \/ \E t \in TaskIds : ReloadRootSlot(t)
    \/ \E t \in TaskIds : ReloadGenerateRoot(t)
    \/ \E t \in TaskIds : ReloadIntermediateSlot(t)
    \/ \E t \in TaskIds : ReloadSwap(t)
    \/ \E t \in TaskIds, req \in RaceSignRequests : SignAuthorize(t, req)
    \/ \E t \in TaskIds : SignReadConf(t)
    \/ \E t \in TaskIds, serial \in {1} : SignIssue(t, serial)

SpecRace == InitWith({c \in RaceConfigs : c.realm = "Picky"}) /\ [][NextRace]_vars

\* startup without CA material in the configuration, reloads under every loadable
\* configuration, reloads whose configuration does not load, chain requests
NextSwap ==
    \/ Startup
    \/ \E new_conf \in Configs : Reload(new_conf)
    \/ ReloadUnreadable
    \/ GetDefaultChain

SpecSwap == InitFresh /\ [][NextSwap]_vars

\* submissions of certificates with and without SKI, issuer CN and subject CN
RejectableCerts == {x \in SubmittedCerts : x.aki = Some(SkiOf(1))}
SubmitRequests == {[cert |-> GarbageDer]} \cup {[cert |-> to_der(x)] : x \in RejectableCerts}

\* startup without CA material in the configuration, submissions, retrievals
NextSubmit ==
    \/ Startup
    \/ \E req \in SubmitRequests : PostCert(req)
    \/ \E req \in FetchRequests : GetCert(req)

SpecSubmit == InitFresh /\ [][NextSubmit]_vars

\* the name-index queries that may fail during one reload
Outages == {{RootName("Picky")}, {AuthorityName("Picky")}}
\* signing requests that the authorization and the name check let through
OutageSignRequests ==
    {r \in SignRequests : r.auth.kind = "ApiKey" /\ r.accept = "PemFile" /\ IsSome(r.csr)}

\* startup without CA material in the configuration, submissions, reloads and
\* issuance, also while the backend fails a name-index query or a store
NextOutage ==
    \/ Startup
    \/ \E req \in FetchPostRequests : PostCert(req)
    \/ \E new_conf \in FreshConfigs : Reload(new_conf)
    \/ \E new_conf \in FreshConfigs, failing \in Outages : ReloadDuringOutage(new_conf, failing)
    \/ \E req \in OutageSignRequests, serial \in Serials : Sign(req, serial)
    \/ \E req \in OutageSignRequests, serial \in Serials : SignDuringOutage(req, serial, {"store"})

SpecOutage == InitFresh /\ [][NextOutage]_vars

\* configurations with the operator's CA material: their bootstrap runs inject
LockConfigs ==
    {c \in Configs : /\ c.realm = "Picky" /\ IsSome(c.root) /\ IsSome(c.intermediate)
                     /\ ~c.save_certificate}
\* submissions under the intermediate's name that name one another as issuer
CyclePostRequests ==
    {r \in ChainPostRequests :
        Val(from_der(r.cert)).aki \in {Some(SkiOf(1)), Some(SkiOf(2))}
        /\ Val(from_der(r.cert)).aki # Val(from_der(r.cert)).ski}

\* startup, then reloads, signing requests and chain requests that run
\* concurrently, and submissions
NextLock ==
    \/ Startup
    \/ \E req \in CyclePostRequests : PostCert(req)
    \/ \E t \in TaskIds, new_conf \in LockConfigs : ReloadRead(t, new_conf)
    \/ \E t \in TaskIds : ReloadRootSlot(t)
    \/ \E t \in TaskIds : ReloadIntermediateSlot(t)
    \/ \E t \in TaskIds : ReloadSwap(t)
    \/ \E t \in TaskIds, req \in RaceSignRequests : SignAuthorize(t, req)
    \/ \E t \in TaskIds : SignReadConf(t)
    \/ \E t \in TaskIds, serial \in {1} : SignIssue(t, serial)
    \/ \E t \in TaskIds : ChainReadConf(t)
    \/ \E t \in TaskIds : ChainWalk(t)

\* the executor polls every task that can go on; tokio's RwLock serves its waiters
\* first-in first-out, so a reload that waits for the write lock obtains it; the
\* weak fairness of ChainWalk is written with its enabling condition WalkReturns
FairLock ==
    \A t \in TaskIds :
        /\ WF_vars(ReloadRootSlot(t))
        /\ WF_vars(ReloadIntermediateSlot(t))
        /\ SF_vars(ReloadSwap(t))
        /\ WF_vars(SignReadConf(t))
        /\ WF_vars(SignIssue(t, 1))
        /\ ([]<>(~WalkReturns(t)) \/ []<><<ChainWalk(t)>>_vars)

SpecLock == InitWith(LockConfigs) /\ [][NextLock]_vars /\ FairLock

(***************************************************************************)
(* A store call next to the lookups of other tasks.  A store becomes        *)
(* visible to the other tasks in the phases store_phases names, one step    *)
(* per phase; the readers are the two-call reads of the handlers: an index  *)
(* lookup, an await, and the read of the certificate at the address found.  *)
(***************************************************************************)
\* what one phase of a store call makes visible
store_phase(st, entry, part) ==
    LET all == store(st, entry) IN
    CASE part = "all" -> all
      [] part = "indexes" -> [all EXCEPT !.cert = st.cert, !.keys = st.keys]
      [] part = "record" -> [st EXCEPT !.cert = all.cert, !.keys = all.keys]

\* a store that publishes the index entries first and the record after them
store_phases_indexes_first(entry) == <<"indexes", "record">>

\* store makes the record and all its index entries visible at once
store_phases(entry) == <<"all">>

\* post_cert up to its store call
SubmitCheck(t, req) ==
    /\ phase = "serving" /\ tasks[t] = Idle
    /\ StoreHasRoom
    /\ LET r == post_cert(config, storage, req) IN
       IF r.c.stored = <<>>
       THEN /\ last' = Last("post_cert", Some(req), r.status, r.c, r.body, 0, NoSlots)
            /\ UNCHANGED tasks
       ELSE /\ tasks' = [tasks EXCEPT ![t] = [kind |-> "submit", pc |-> "store", req |-> req,
                                              entry |-> r.c.stored[1],
                                              phases |-> store_phases(r.c.stored[1]),
                                              calls |-> <<>>, stored |-> <<>>]]
            /\ UNCHANGED last
    /\ UNCHANGED <<storage, config, phase, nkeys, handle>>

\* the store call of post_cert, phase by phase, and the response after the last one
SubmitStore(t) ==
    /\ tasks[t].kind = "submit" /\ tasks[t].pc = "store"
    /\ storage' = store_phase(storage, tasks[t].entry, Head(tasks[t].phases))
    /\ IF Tail(tasks[t].phases) # <<>>
       THEN /\ tasks' = [tasks EXCEPT ![t] = [@ EXCEPT !.phases = Tail(@)]]
            /\ UNCHANGED last
       ELSE /\ tasks' = Finish(t)
            /\ last' = Last("post_cert", Some(tasks[t].req), "OK",
                            [st |-> storage', calls |-> <<"store">>, stored |-> <<tasks[t].entry>>],
                            None, 0, NoSlots)
    /\ UNCHANGED <<config, phase, nkeys, handle>>

Indexes == {"name", "key_identifiers", "hash_lookup"}
IndexLookup(index) ==
    CASE index = "name" -> "get_addressing_hash_by_name"
      [] index = "key_identifiers" -> "get_addressing_hash_by_key_identifier"
      [] index = "hash_lookup" -> "lookup_addressing_hash"

\* the first call of a read: the address an index has for a key it holds
\* (sign_certificate and find_ca_chain by name, the chain walk by key identifier,
\* get_cert by alternate address)
LookupIndex(t, index) ==
    /\ phase = "serving" /\ tasks[t] = Idle
    /\ \E key \in DOMAIN storage[index] :
           tasks' = [tasks EXCEPT ![t] = [kind |-> "read", pc |-> "cert", index |-> index,
                                          address |-> storage[index][key],
                                          calls |-> <<IndexLookup(index)>>, stored |-> <<>>]]
    /\ UNCHANGED <<storage, config, phase, nkeys, last, handle>>

\* the second call: get_cert_by_addressing_hash at the address found
ReadCertificate(t) ==
    /\ tasks[t].kind = "read" /\ tasks[t].pc = "cert"
    /\ LET cert_der == get_cert_by_addressing_hash(storage, tasks[t].address)
           c == Log(At(t), "get_cert_by_addressing_hash")
       IN  last' = Last("read", Some([index |-> tasks[t].index, address |-> tasks[t].address]),
                        IF cert_der.ok THEN "OK" ELSE "NOT_FOUND", c,
                        IF cert_der.ok THEN Some(Val(cert_der)) ELSE None, 0, NoSlots)
    /\ tasks' = Finish(t)
    /\ UNCHANGED <<storage, config, phase, nkeys, handle>>

\* startup, then submissions and reads that run concurrently
NextStore ==
    \/ Startup
    \/ \E t \in TaskIds, req \in FetchPostRequests : SubmitCheck(t, req)
    \/ \E t \in TaskIds : SubmitStore(t)
    \/ \E t \in TaskIds, index \in Indexes : LookupIndex(t, index)
    \/ \E t \in TaskIds : ReadCertificate(t)

SpecStore == InitFresh /\ [][NextStore]_vars

\* root pairs an operator may configure: the root with its own key, with the key of
\* another certificate, and with key file data that is no PKCS#8 key
InjectedRootPairs ==
    RootPairs
    \cup {[cert |-> to_der(OperatorRoot), key |-> to_pkcs8(OperatorIntermediateKey)],
          [cert |-> to_der(OperatorRoot), key |-> <<"pkcs1", OperatorRootKey>>]}
InjectConfigs ==
    [realm : {"Picky"}, save_certificate : {FALSE},
     root : {Some(p) : p \in InjectedRootPairs},
     intermediate : {None} \cup {Some(p) : p \in IntermediatePairs},
     database_url : {"mongodb://db0"}, file_backend_path : {"/data0"}, backend : {"MongoDb"}]

\* startup and reloads under configurations that inject a root, submissions, issuance
NextInject ==
    \/ Startup
    \/ \E new_conf \in InjectConfigs : Reload(new_conf)
    \/ \E req \in FetchPostRequests : PostCert(req)
    \/ \E req \in RaceSignRequests, serial \in Serials : Sign(req, serial)

SpecInject == InitWith(InjectConfigs) /\ [][NextInject]_vars

\* configurations that differ in the storage they name and in save_certificate
StorageConfigs ==
    [realm : {"Picky"}, save_certificate : BOOLEAN, root : {None}, intermediate : {None},
     database_url : {"mongodb://db0", "mongodb://db1"},
     file_backend_path : {"/data0", "/data1"}, backend : {"MongoDb", "Memory"}]

\* startup and reloads under configurations that name another storage
NextReload ==
    \/ Startup
    \/ \E new_conf \in StorageConfigs : Reload(new_conf)
    \/ ReloadUnreadable

SpecReload == InitWith(StorageConfigs) /\ [][NextReload]_vars

\* the byte strings addresses are computed of
ByteStrings == UNION {[1..n -> {0, 1}] : n \in 0..MaxBytes}
WellFormedAddresses ==
    {multibase_encode(b, multihash_encode(h, data)) : b \in Bases, h \in Hashes, data \in ByteStrings}
\* strings that are no address: digits that are not of the prefix's base, a digest
\* length that does not fit the algorithm code, an unknown algorithm code
MalformedAddresses ==
    {[prefix |-> "u", digits |-> [radix |-> "Base58btc", val |-> multihash_encode(h, data)]] :
        h \in Hashes, data \in ByteStrings}
    \cup {multibase_encode(b, <<HashCode("SHA2256"), HashSize("SHA1"), Digest("SHA2256", data)>>) :
            b \in Bases, data \in ByteStrings}
    \cup {multibase_encode(b, <<0, 0, Digest("SHA1", data)>>) : b \in Bases, data \in ByteStrings}
AddressInputs == WellFormedAddresses \cup MalformedAddresses

\* a caller of the addressing module normalises an address
Normalise(address) ==
    /\ LET r == convert_to_canonical_base(address) IN
       last' = Last("normalise", Some(address), IF r.ok THEN "OK" ELSE "ERROR", Ctx(storage),
                    IF r.ok THEN Some(Val(r)) ELSE None, 0, NoSlots)
    /\ UNCHANGED <<storage, config, phase, nkeys, handle, tasks>>

\* a caller of the addressing module computes the addresses of a byte string
Encode(data) ==
    /\ last' = Last("encode", Some(data), "OK", Ctx(storage),
                    Some([canonical |-> encode_to_canonical_address(data),
                          alternatives |-> encode_to_alternative_addresses(data)]), 0, NoSlots)
    /\ UNCHANGED <<storage, config, phase, nkeys, handle, tasks>>

\* the addressing module on its own
NextAddressing ==
    \/ \E address \in AddressInputs : Normalise(address)
    \/ \E data \in ByteStrings : Encode(data)

SpecAddressing == InitFresh /\ [][NextAddressing]_vars

(***************************************************************************)
(* KeyUsage (x509/extension.rs).  A bit string is the sequence of bytes    *)
(* picky_asn1 keeps: the number of unused bits of the last byte, then the   *)
(* payload, bit 0 being the most significant bit of the first payload byte. *)
(***************************************************************************)
h_number_of_bytes_for_n_bits(n) == (n + 7) \div 8
h_unused_bits(n) == (8 - (n % 8)) % 8
with_len(num_bits) ==
    <<h_unused_bits(num_bits)>> \o [i \in 1..h_number_of_bytes_for_n_bits(num_bits) |-> 0]
get_num_bits(bits) == (Len(bits) - 1) * 8 - bits[1]
\* the bytes kept are kept, the bytes added are zero
set_num_bits(bits, num_bits) ==
    <<h_unused_bits(num_bits)>>
    \o [i \in 1..h_number_of_bytes_for_n_bits(num_bits) |-> IF i + 1 <= Len(bits) THEN bits[i + 1] ELSE 0]
Mask(idx) == 2 ^ (7 - (idx % 8))
Bucket(idx) == (idx \div 8) + 2
\* a bit out of bounds reads as not set
is_set(bits, idx) ==
    /\ idx < get_num_bits(bits)
    /\ (bits[Bucket(idx)] \div Mask(idx)) % 2 = 1
\* a bit out of bounds is not written
set(bits, idx, val) ==
    IF idx >= get_num_bits(bits) THEN bits
    ELSE [bits EXCEPT ![Bucket(idx)] =
            IF val THEN @ + (IF is_set(bits, idx) THEN 0 ELSE Mask(idx))
            ELSE @ - (IF is_set(bits, idx) THEN Mask(idx) ELSE 0)]
payload_view(bits) == Tail(bits)

\* the flags of bit_string_get_set!, in the order of their bit indexes 0..8
KeyUsageFlags ==
    <<"digital_signature", "content_commitment", "key_encipherment", "data_encipherment",
      "key_agreement", "key_cert_sign", "crl_sign", "encipher_only", "decipher_only">>
FlagNames == {KeyUsageFlags[i] : i \in DOMAIN KeyUsageFlags}
FlagIndex(flag) == (CHOOSE i \in DOMAIN KeyUsageFlags : KeyUsageFlags[i] = flag) - 1
MaxNumBits == 9

KeyUsage_new(num_bits) == with_len(num_bits)
as_bytes(key_usage) == payload_view(key_usage)
getter(key_usage, flag) == is_set(key_usage, FlagIndex(flag))
\* if self.0.get_num_bits() <= $idx { self.0.set_num_bits($idx + 1) }
never_extended(key_usage, idx) == key_usage
extended(key_usage, idx) ==
    IF get_num_bits(key_usage) <= idx THEN set_num_bits(key_usage, idx + 1) ELSE key_usage
setter(key_usage, flag, val) == set(extended(key_usage, FlagIndex(flag)), FlagIndex(flag), val)

KeyUsageOps == {"key_usage_new", "key_usage_set"}
\* a caller creates a KeyUsage value
KeyUsageNew(num_bits) ==
    /\ last' = Last("key_usage_new", Some(num_bits), "OK", Ctx(storage),
                    Some(KeyUsage_new(num_bits)), 0, NoSlots)
    /\ UNCHANGED <<storage, config, phase, nkeys, handle, tasks>>

\* a caller calls one setter on the value it holds
KeyUsageSet(flag, val) ==
    /\ last.op \in KeyUsageOps
    /\ LET key_usage == Unwrap(last.body) IN
       last' = Last("key_usage_set", Some([flag |-> flag, val |-> val, before |-> key_usage]),
                    "OK", Ctx(storage), Some(setter(key_usage, flag, val)), 0, NoSlots)
    /\ UNCHANGED <<storage, config, phase, nkeys, handle, tasks>>

\* KeyUsage values of every length and every sequence of setter calls on them
NextKeyUsage ==
    \/ \E num_bits \in 0..MaxNumBits : KeyUsageNew(num_bits)
    \/ \E flag \in FlagNames, val \in BOOLEAN : KeyUsageSet(flag, val)

SpecKeyUsage == InitFresh /\ [][NextKeyUsage]_vars

(***************************************************************************)
(* Extension (x509/extension.rs) and its DER form.  An encoding is a tree  *)
(* of elements, each a tag and a content; the content of an OCTET STRING   *)
(* that wraps a value is the element of that value, and bytes that are no  *)
(* element carry the tag "raw".                                             *)
(***************************************************************************)
El(tag, content) == [tag |-> tag, content |-> content]
\* an OPTIONAL field is written when it is present
OptEl(tag, field) == IF IsSome(field) THEN <<El(tag, Unwrap(field))>> ELSE <<>>
\* seq.next_element().unwrap_or(Some(None)).unwrap_or(None) of an OPTIONAL field:
\* the next element when it carries the field's tag, None otherwise
NextIs(elements, tag) == Len(elements) > 0 /\ elements[1].tag = tag
OptNext(elements, tag) == IF NextIs(elements, tag) THEN Some(elements[1].content) ELSE None
AfterOpt(elements, tag) == IF NextIs(elements, tag) THEN Tail(elements) ELSE elements

\* the object identifiers of crate::oids; certificate_policies is an extension
\* this library has no type for
oids ==
    [authority_key_identifier |-> "2.5.29.35",
     subject_key_identifier |-> "2.5.29.14",
     key_usage |-> "2.5.29.15",
     subject_alternative_name |-> "2.5.29.17",
     issuer_alternative_name |-> "2.5.29.18",
     basic_constraints |-> "2.5.29.19",
     extended_key_usage |-> "2.5.29.37",
     kp_any_extended_key_usage |-> "2.5.29.37.0",
     kp_server_auth |-> "1.3.6.1.5.5.7.3.1",
     kp_client_auth |-> "1.3.6.1.5.5.7.3.2",
     certificate_policies |-> "2.5.29.32",
     rsa_encryption |-> "1.2.840.113549.1.1.1",
     sha1_with_rsa_encryption |-> "1.2.840.113549.1.1.5",
     sha224_with_rsa_encryption |-> "1.2.840.113549.1.1.14",
     sha256_with_rsa_encryption |-> "1.2.840.113549.1.1.11",
     sha384_with_rsa_encryption |-> "1.2.840.113549.1.1.12",
     sha512_with_rsa_encryption |-> "1.2.840.113549.1.1.13",
     ecdsa_with_sha384 |-> "1.2.840.10045.4.3.3",
     ecdsa_with_sha256 |-> "1.2.840.10045.4.3.2",
     ec_public_key |-> "1.2.840.10045.2.1",
     secp256r1 |-> "1.2.840.10045.3.1.7",
     secp384r1 |-> "1.3.132.0.34"]

ExtensionValue(variant, val) == [variant |-> variant, val |-> val]
Extension(extn_id, critical, extn_value) ==
    [extn_id |-> extn_id, critical |-> critical, extn_value |-> extn_value]
Contains(purpose_oids, item) == \E i \in DOMAIN purpose_oids : purpose_oids[i] = item

new_key_usage(key_usage) ==
    Extension(oids.key_usage, TRUE, ExtensionValue("KeyUsage", key_usage))
new_subject_key_identifier(ski) ==
    Extension(oids.subject_key_identifier, FALSE, ExtensionValue("SubjectKeyIdentifier", ski))
new_authority_key_identifier(key_identifier, authority_cert_issuer, authority_cert_serial_number) ==
    Extension(oids.authority_key_identifier, FALSE,
              ExtensionValue("AuthorityKeyIdentifier",
                             [key_identifier |-> key_identifier,
                              authority_cert_issuer |-> authority_cert_issuer,
                              authority_cert_serial_number |-> authority_cert_serial_number]))
new_basic_constraints(ca, path_len_constraints) ==
    Extension(oids.basic_constraints, TRUE,
              ExtensionValue("BasicConstraints", [ca |-> ca, path_len_constraint |-> path_len_constraints]))
new_extended_key_usage(extended_key_usage) ==
    Extension(oids.extended_key_usage, ~Contains(extended_key_usage, oids.kp_any_extended_key_usage),
              ExtensionValue("ExtendedKeyUsage", extended_key_usage))
new_subject_alt_name(name) ==
    Extension(oids.subject_alternative_name, TRUE, ExtensionValue("SubjectAltName", name))
new_issuer_alt_name(name) ==
    Extension(oids.issuer_alternative_name, FALSE, ExtensionValue("IssuerAltName", name))
set_critical(extension, critical) == [extension EXCEPT !.critical = critical]

\* the DER form of the values
GeneralNamesEl(name) == El("SEQUENCE", [i \in DOMAIN name |-> El("dNSName", name[i])])
ExtensionValue_serialize(extn_value) ==
    CASE extn_value.variant = "AuthorityKeyIdentifier" ->
            El("OCTET STRING",
               El("SEQUENCE", OptEl("[0]", extn_value.val.key_identifier)
                              \o OptEl("[1]", extn_value.val.authority_cert_issuer)
                              \o OptEl("[2]", extn_value.val.authority_cert_serial_number)))
      [] extn_value.variant = "SubjectKeyIdentifier" ->
            El("OCTET STRING", El("OCTET STRING", extn_value.val))
      [] extn_value.variant = "KeyUsage" ->
            El("OCTET STRING", El("BIT STRING", extn_value.val))
      [] extn_value.variant \in {"SubjectAltName", "IssuerAltName"} ->
            El("OCTET STRING", GeneralNamesEl(extn_value.val))
      [] extn_value.variant = "BasicConstraints" ->
            El("OCTET STRING",
               El("SEQUENCE", OptEl("BOOLEAN", extn_value.val.ca)
                              \o OptEl("INTEGER", extn_value.val.path_len_constraint)))
      [] extn_value.variant = "ExtendedKeyUsage" ->
            El("OCTET STRING",
               El("SEQUENCE", [i \in DOMAIN extn_value.val |-> El("OBJECT IDENTIFIER", extn_value.val[i])]))
      [] OTHER -> El("OCTET STRING", extn_value.val)

\* if self.critical.0 != bool::default() { seq.serialize_element(&self.critical)?; }
critical_never_written(critical) == FALSE
critical_written(critical) == critical # FALSE
Extension_serialize(extension) ==
    El("SEQUENCE",
       <<El("OBJECT IDENTIFIER", extension.extn_id)>>
       \o (IF critical_written(extension.critical) THEN <<El("BOOLEAN", extension.critical)>> ELSE <<>>)
       \o <<ExtensionValue_serialize(extension.extn_value)>>)

\* the values read back from the content of the wrapping OCTET STRING
AllTagged(elements, tag) == \A i \in DOMAIN elements : elements[i].tag = tag
Contents(elements) == [i \in DOMAIN elements |-> elements[i].content]
AuthorityKeyIdentifier_deserialize(wrapped) ==
    IF wrapped.tag # "SEQUENCE" THEN Err("InvalidData")
    ELSE LET after0 == AfterOpt(wrapped.content, "[0]")
             after1 == AfterOpt(after0, "[1]")
         IN  Ok(ExtensionValue("AuthorityKeyIdentifier",
                               [key_identifier |-> OptNext(wrapped.content, "[0]"),
                                authority_cert_issuer |-> OptNext(after0, "[1]"),
                                authority_cert_serial_number |-> OptNext(after1, "[2]")]))
BasicConstraints_deserialize(wrapped) ==
    IF wrapped.tag # "SEQUENCE" THEN Err("InvalidData")
    ELSE Ok(ExtensionValue("BasicConstraints",
                           [ca |-> OptNext(wrapped.content, "BOOLEAN"),
                            path_len_constraint |-> OptNext(AfterOpt(wrapped.content, "BOOLEAN"),
                                                            "INTEGER")]))
SequenceOf_deserialize(variant, wrapped, tag) ==
    IF wrapped.tag # "SEQUENCE" \/ ~AllTagged(wrapped.content, tag) THEN Err("InvalidData")
    ELSE Ok(ExtensionValue(variant, Contents(wrapped.content)))
Primitive_deserialize(variant, wrapped, tag) ==
    IF wrapped.tag # tag THEN Err("InvalidData") ELSE Ok(ExtensionValue(variant, wrapped.content))

\* visit_seq: the id, the critical flag (false when the next element is no
\* BOOLEAN), then the value the id selects
ExtensionValue_deserialize(id, wrapped) ==
    CASE id = oids.authority_key_identifier -> AuthorityKeyIdentifier_deserialize(wrapped)
      [] id = oids.subject_key_identifier -> Primitive_deserialize("SubjectKeyIdentifier", wrapped, "OCTET STRING")
      [] id = oids.key_usage -> Primitive_deserialize("KeyUsage", wrapped, "BIT STRING")
      [] id = oids.subject_alternative_name -> SequenceOf_deserialize("SubjectAltName", wrapped, "dNSName")
      [] id = oids.issuer_alternative_name -> SequenceOf_deserialize("IssuerAltName", wrapped, "dNSName")
      [] id = oids.basic_constraints -> BasicConstraints_deserialize(wrapped)
      [] id = oids.extended_key_usage -> SequenceOf_deserialize("ExtendedKeyUsage", wrapped, "OBJECT IDENTIFIER")
      [] OTHER -> Ok(ExtensionValue("Generic", wrapped))
Extension_deserialize(encoded) ==
    IF encoded.tag # "SEQUENCE" \/ ~NextIs(encoded.content, "OBJECT IDENTIFIER")
    THEN Err("InvalidData")
    ELSE LET id == encoded.content[1].content
             after_id == Tail(encoded.content)
             critical == IF NextIs(after_id, "BOOLEAN") THEN after_id[1].content ELSE FALSE
             after_critical == AfterOpt(after_id, "BOOLEAN")
         IN  IF ~NextIs(after_critical, "OCTET STRING") THEN Err("InvalidData")
             ELSE LET value == ExtensionValue_deserialize(id, after_critical[1].content) IN
                  IF ~value.ok THEN value
                  ELSE Ok(Extension(id, critical, Val(value)))

\* the arguments of the constructors
KeyUsages ==
    {KeyUsage_new(0), KeyUsage_new(9),
     setter(setter(KeyUsage_new(7), "digital_signature", TRUE), "key_encipherment", TRUE),
     setter(setter(KeyUsage_new(0), "key_cert_sign", TRUE), "crl_sign", TRUE)}
KeyIdentifiers == {<<1>>, <<2>>}
DnsNames == {"devel.example.com", "ipv6.example.com"}
GeneralNameLists == UNION {[1..n -> DnsNames] : n \in 0..2}
PurposeLists ==
    UNION {[1..n -> {oids.kp_server_auth, oids.kp_client_auth, oids.kp_any_extended_key_usage}] :
            n \in 0..2}
Optional(S) == {None} \cup {Some(x) : x \in S}
\* encodings that no serialize call of this library produced: an extension without
\* a type here, with and without the critical element; a false critical element
\* written out; a value that is not of the id's type; an element that is no extension
ReceivedEncodings ==
    {El("SEQUENCE", <<El("OBJECT IDENTIFIER", oids.certificate_policies)>> \o flag
                    \o <<El("OCTET STRING", El("raw", bytes))>>) :
        flag \in {<<>>, <<El("BOOLEAN", TRUE)>>}, bytes \in KeyIdentifiers}
    \cup {El("SEQUENCE", <<El("OBJECT IDENTIFIER", oids.key_usage), El("BOOLEAN", FALSE),
                           El("OCTET STRING", El("BIT STRING", KeyUsage_new(9)))>>),
          El("SEQUENCE", <<El("OBJECT IDENTIFIER", oids.key_usage),
                           El("OCTET STRING", El("BIT STRING", KeyUsage_new(9)))>>),
          El("SEQUENCE", <<El("OBJECT IDENTIFIER", oids.key_usage),
                           El("OCTET STRING", El("raw", <<1>>))>>),
          El("BIT STRING", KeyUsage_new(9))}

ExtensionHeld == last.op \in {"extension_new", "extension_set_critical"}
\* a caller builds an extension with one of the constructors
ExtensionBuilt(extension) ==
    Last("extension_new", None, "OK", Ctx(storage), Some(extension), 0, NoSlots)
NewKeyUsage(key_usage) ==
    /\ last' = ExtensionBuilt(new_key_usage(key_usage))
    /\ UNCHANGED <<storage, config, phase, nkeys, handle, tasks>>
NewSubjectKeyIdentifier(ski) ==
    /\ last' = ExtensionBuilt(new_subject_key_identifier(ski))
    /\ UNCHANGED <<storage, config, phase, nkeys, handle, tasks>>
NewAuthorityKeyIdentifier(ki, issuer, sn) ==
    /\ last' = ExtensionBuilt(new_authority_key_identifier(ki, issuer, sn))
    /\ UNCHANGED <<storage, config, phase, nkeys, handle, tasks>>
NewBasicConstraints(ca, plc) ==
    /\ last' = ExtensionBuilt(new_basic_constraints(ca, plc))
    /\ UNCHANGED <<storage, config, phase, nkeys, handle, tasks>>
NewExtendedKeyUsage(purposes) ==
    /\ last' = ExtensionBuilt(new_extended_key_usage(purposes))
    /\ UNCHANGED <<storage, config, phase, nkeys, handle, tasks>>
NewSubjectAltName(name) ==
    /\ last' = ExtensionBuilt(new_subject_alt_name(name))
    /\ UNCHANGED <<storage, config, phase, nkeys, handle, tasks>>
NewIssuerAltName(name) ==
    /\ last' = ExtensionBuilt(new_issuer_alt_name(name))
    /\ UNCHANGED <<storage, config, phase, nkeys, handle, tasks>>

\* into_critical, into_non_critical, set_critical
ExtensionSetCritical(critical) ==
    /\ ExtensionHeld
    /\ last' = Last("extension_set_critical", Some(critical), "OK", Ctx(storage),
                    Some(set_critical(Unwrap(last.body), critical)), 0, NoSlots)
    /\ UNCHANGED <<storage, config, phase, nkeys, handle, tasks>>

\* the extension held is serialised
ExtensionSerialize ==
    /\ ExtensionHeld
    /\ last' = Last("extension_serialize", last.body, "OK", Ctx(storage),
                    Some(Extension_serialize(Unwrap(last.body))), 0, NoSlots)
    /\ UNCHANGED <<storage, config, phase, nkeys, handle, tasks>>

\* an encoding arrives from elsewhere
ExtensionReceive(encoded) ==
    /\ last' = Last("extension_receive", None, "OK", Ctx(storage), Some(encoded), 0, NoSlots)
    /\ UNCHANGED <<storage, config, phase, nkeys, handle, tasks>>

\* the encoding at hand is deserialised
ExtensionDeserialize ==
    /\ last.op \in {"extension_serialize", "extension_receive"}
    /\ LET r == Extension_deserialize(Unwrap(last.body)) IN
       last' = Last("extension_deserialize", Some([encoded |-> Unwrap(last.body), of |-> last.arg]),
                    IF r.ok THEN "OK" ELSE "ERROR", Ctx(storage),
                    IF r.ok THEN Some(Val(r)) ELSE None, 0, NoSlots)
    /\ UNCHANGED <<storage, config, phase, nkeys, handle, tasks>>

\* every constructor, either criticality, the round trip, foreign encodings
NextExtension ==
    \/ \E key_usage \in KeyUsages : NewKeyUsage(key_usage)
    \/ \E ski \in KeyIdentifiers : NewSubjectKeyIdentifier(ski)
    \/ \E ki \in Optional(KeyIdentifiers), issuer \in Optional(DnsNames), sn \in Optional({1}) :
          NewAuthorityKeyIdentifier(ki, issuer, sn)
    \/ \E ca \in Optional(BOOLEAN), plc \in Optional({0, 1}) : NewBasicConstraints(ca, plc)
    \/ \E purposes \in PurposeLists : NewExtendedKeyUsage(purposes)
    \/ \E name \in GeneralNameLists : NewSubjectAltName(name)
    \/ \E name \in GeneralNameLists : NewIssuerAltName(name)
    \/ \E critical \in BOOLEAN : ExtensionSetCritical(critical)
    \/ ExtensionSerialize
    \/ \E encoded \in ReceivedEncodings : ExtensionReceive(encoded)
    \/ ExtensionDeserialize

SpecExtension == InitFresh /\ [][NextExtension]_vars

(***************************************************************************)
(* AlgorithmIdentifier (algorithm_identifier.rs) and its DER form.         *)
(***************************************************************************)
\* algorithms this library has no constructor for (md5WithRSAEncryption, id-dsa,
\* id-Ed25519)
ForeignAlgorithms == {"1.2.840.113549.1.1.4", "1.2.840.10040.4.1", "1.3.101.112"}

ParametersNone == [variant |-> "None", ec |-> None]
ParametersNull == [variant |-> "Null", ec |-> None]
ParametersEC(ec_params) == [variant |-> "EC", ec |-> Some(ec_params)]
NamedCurve(oid) == [variant |-> "NamedCurve", oid |-> Some(oid)]
ImplicitCurve == [variant |-> "ImplicitCurve", oid |-> None]
AlgorithmIdentifier(algorithm, parameters) == [algorithm |-> algorithm, parameters |-> parameters]

new_sha1_with_rsa_encryption == AlgorithmIdentifier(oids.sha1_with_rsa_encryption, ParametersNull)
new_sha224_with_rsa_encryption == AlgorithmIdentifier(oids.sha224_with_rsa_encryption, ParametersNull)
new_sha256_with_rsa_encryption == AlgorithmIdentifier(oids.sha256_with_rsa_encryption, ParametersNull)
new_sha384_with_rsa_encryption == AlgorithmIdentifier(oids.sha384_with_rsa_encryption, ParametersNull)
new_sha512_with_rsa_encryption == AlgorithmIdentifier(oids.sha512_with_rsa_encryption, ParametersNull)
new_rsa_encryption == AlgorithmIdentifier(oids.rsa_encryption, ParametersNull)
new_ecdsa_with_sha384 == AlgorithmIdentifier(oids.ecdsa_with_sha384, ParametersNone)
new_ecdsa_with_sha256 == AlgorithmIdentifier(oids.ecdsa_with_sha256, ParametersNone)
new_elliptic_curve(ec_params) == AlgorithmIdentifier(oids.ec_public_key, ParametersEC(ec_params))

\* the unit value serialises as the NULL element
null_omitted == <<>>
null_element == <<El("NULL", <<>>)>>
ECParameters_serialize(ec_params) ==
    IF ec_params.variant = "NamedCurve"
    THEN <<El("OBJECT IDENTIFIER", Unwrap(ec_params.oid))>>
    ELSE null_element
AlgorithmIdentifier_serialize(a) ==
    El("SEQUENCE",
       <<El("OBJECT IDENTIFIER", a.algorithm)>>
       \o (CASE a.parameters.variant = "None" -> <<>>
             [] a.parameters.variant = "Null" -> null_element
             [] OTHER -> ECParameters_serialize(Unwrap(a.parameters.ec))))

\* the TagPeeker reads the tag of the next element
ECParameters_deserialize(elements) ==
    IF Len(elements) = 0 THEN Err("missing element")
    ELSE CASE elements[1].tag = "OBJECT IDENTIFIER" -> Ok(NamedCurve(elements[1].content))
           [] elements[1].tag = "NULL" -> Ok(ImplicitCurve)
           [] OTHER -> Err("unsupported or unknown elliptic curve parameter")
RsaAlgorithms ==
    {oids.rsa_encryption, oids.sha1_with_rsa_encryption, oids.sha224_with_rsa_encryption,
     oids.sha256_with_rsa_encryption, oids.sha384_with_rsa_encryption,
     oids.sha512_with_rsa_encryption}
EcdsaAlgorithms == {oids.ecdsa_with_sha384, oids.ecdsa_with_sha256}
AlgorithmIdentifier_deserialize(encoded) ==
    IF encoded.tag # "SEQUENCE" \/ ~NextIs(encoded.content, "OBJECT IDENTIFIER")
    THEN Err("missing element")
    ELSE LET oid == encoded.content[1].content
             after_oid == Tail(encoded.content)
         IN  CASE oid \in RsaAlgorithms ->
                    IF NextIs(after_oid, "NULL") THEN Ok(AlgorithmIdentifier(oid, ParametersNull))
                    ELSE Err("missing element")
               [] oid \in EcdsaAlgorithms -> Ok(AlgorithmIdentifier(oid, ParametersNone))
               [] oid = oids.ec_public_key ->
                    LET ec_params == ECParameters_deserialize(after_oid) IN
                    IF ec_params.ok THEN Ok(AlgorithmIdentifier(oid, ParametersEC(Val(ec_params))))
                    ELSE ec_params
               [] OTHER -> Err("unsupported algorithm (unknown oid)")

\* the curves given to new_elliptic_curve
Curves == {NamedCurve(oids.secp256r1), NamedCurve(oids.secp384r1), ImplicitCurve}
\* encodings that arrive from elsewhere: every algorithm, of this library or not,
\* with no parameter, NULL, a curve, or an INTEGER
ReceivedParameters ==
    {<<>>, <<El("NULL", <<>>)>>, <<El("OBJECT IDENTIFIER", oids.secp256r1)>>, <<El("INTEGER", 1)>>}
ReceivedAlgorithms ==
    {El("SEQUENCE", <<El("OBJECT IDENTIFIER", oid)>> \o parameters) :
        oid \in RsaAlgorithms \cup EcdsaAlgorithms \cup {oids.ec_public_key} \cup ForeignAlgorithms,
        parameters \in ReceivedParameters}

\* a caller builds an algorithm identifier with one of the constructors
AlgorithmNew(a) ==
    /\ last' = Last("algorithm_new", None, "OK", Ctx(storage), Some(a), 0, NoSlots)
    /\ UNCHANGED <<storage, config, phase, nkeys, handle, tasks>>
NewEllipticCurve(ec_params) ==
    /\ last' = Last("algorithm_new", None, "OK", Ctx(storage),
                    Some(new_elliptic_curve(ec_params)), 0, NoSlots)
    /\ UNCHANGED <<storage, config, phase, nkeys, handle, tasks>>

\* the algorithm identifier held is serialised
AlgorithmSerialize ==
    /\ last.op = "algorithm_new"
    /\ last' = Last("algorithm_serialize", last.body, "OK", Ctx(storage),
                    Some(AlgorithmIdentifier_serialize(Unwrap(last.body))), 0, NoSlots)
    /\ UNCHANGED <<storage, config, phase, nkeys, handle, tasks>>

\* an encoding arrives from elsewhere
AlgorithmReceive(encoded) ==
    /\ last' = Last("algorithm_receive", None, "OK", Ctx(storage), Some(encoded), 0, NoSlots)
    /\ UNCHANGED <<storage, config, phase, nkeys, handle, tasks>>

\* the encoding at hand is deserialised; a failure is reported with its message
AlgorithmDeserialize ==
    /\ last.op \in {"algorithm_serialize", "algorithm_receive"}
    /\ LET r == AlgorithmIdentifier_deserialize(Unwrap(last.body)) IN
       last' = Last("algorithm_deserialize", Some([encoded |-> Unwrap(last.body), of |-> last.arg]),
                    IF r.ok THEN "OK" ELSE r.err, Ctx(storage),
                    IF r.ok THEN Some(Val(r)) ELSE None, 0, NoSlots)
    /\ UNCHANGED <<storage, config, phase, nkeys, handle, tasks>>

\* every constructor, the round trip, foreign encodings
NextAlgorithm ==
    \/ AlgorithmNew(new_sha1_with_rsa_encryption)
    \/ AlgorithmNew(new_sha224_with_rsa_encryption)
    \/ AlgorithmNew(new_sha256_with_rsa_encryption)
    \/ AlgorithmNew(new_sha384_with_rsa_encryption)
    \/ AlgorithmNew(new_sha512_with_rsa_encryption)
    \/ AlgorithmNew(new_rsa_encryption)
    \/ AlgorithmNew(new_ecdsa_with_sha384)
    \/ AlgorithmNew(new_ecdsa_with_sha256)
    \/ \E ec_params \in Curves : NewEllipticCurve(ec_params)
    \/ AlgorithmSerialize
    \/ \E encoded \in ReceivedAlgorithms : AlgorithmReceive(encoded)
    \/ AlgorithmDeserialize

SpecAlgorithm == InitFresh /\ [][NextAlgorithm]_vars

(***************************************************************************)
(* The backend setting of the server configuration (configuration.rs).     *)
(***************************************************************************)
BackendType_default == "MongoDb"
BackendType_from(backend) ==
    CASE backend = "mysql" -> "MySQL"
      [] backend = "sqlite" -> "SQLite"
      [] backend = "mongodb" -> "MongoDb"
      [] backend = "memory" -> "Memory"
      [] OTHER -> BackendType_default
\* match matches.value_of("backend") { Some(v) => self.backend = BackendType::from(v), None => () }
load_cli(backend, cli) == IF IsSome(cli) THEN BackendType_from(Unwrap(cli)) ELSE backend
\* if let Ok(val) = env::var(PICKY_BACKEND_ENV) { self.backend = BackendType::from(val.as_str()) }
load_env(backend, env) == IF IsSome(env) THEN BackendType_from(Unwrap(env)) ELSE backend
ServerConfig_new(cli, env) == load_env(load_cli(BackendType_default, cli), env)

\* the values given on the command line and in PICKY_BACKEND: the documented
\* names, a name in another case, an unknown name, the empty string
BackendSettings ==
    Optional({"memory", "file", "mongodb", "mysql", "sqlite", "MongoDB", "postgres", ""})

\* the server reads its configuration
ServerConfigNew(cli, env) ==
    /\ last' = Last("server_config_new", Some([cli |-> cli, env |-> env]), "OK", Ctx(storage),
                    Some(ServerConfig_new(cli, env)), 0, NoSlots)
    /\ UNCHANGED <<storage, config, phase, nkeys, handle, tasks>>

NextBackend ==
    \E cli \in BackendSettings, env \in BackendSettings : ServerConfigNew(cli, env)

SpecBackend == InitFresh /\ [][NextBackend]_vars

(***************************************************************************)
(* Properties.                                                              *)
(***************************************************************************)
CertNamed(st, name) == Val(from_der(st.cert[st.name[name]]))
RecordsNamed(st, name) ==
    {a \in DOMAIN st.cert : Val(from_der(st.cert[a])).subject = Some(name)}
HoldsOneNamed(st, name) ==
    /\ Has(st.name, name)
    /\ Has(st.cert, st.name[name])
    /\ Cardinality(RecordsNamed(st, name)) = 1
BootConfig == Unwrap(last.arg)

\* C1: after a bootstrap run that returns success the store holds exactly one
\* record named "<Realm> Root CA" and exactly one named "<Realm> Authority", and
\* the Authority's AuthorityKeyIdentifier equals the Root CA's SubjectKeyIdentifier.
C1_BootstrapPostcondition ==
    (last.op \in BootOps /\ last.status = "OK") =>
        /\ HoldsOneNamed(storage, RootName(BootConfig.realm))
        /\ HoldsOneNamed(storage, AuthorityName(BootConfig.realm))
        /\ CertNamed(storage, AuthorityName(BootConfig.realm)).aki
             = CertNamed(storage, RootName(BootConfig.realm)).ski

\* C2: a bootstrap run that directly follows a bootstrap run under the same
\* configuration leaves the records and all indexes as the first run left them
\* and generates no key pair.
C2_BootstrapIdempotent ==
    (last.op \in BootOps /\ last.rerun) =>
        (~last.changed /\ \A i \in DOMAIN last.slots : last.slots[i].generated = 0)

\* a second run under a configuration whose first run generated both CAs
C2_Witness ==
    /\ last.op = "reload" /\ last.rerun /\ last.status = "OK"
    /\ ~IsSome(BootConfig.root) /\ ~IsSome(BootConfig.intermediate)
    /\ Len(last.slots) = 2

\* C3 as stated: a slot whose name is indexed when bootstrap examines it makes no
\* store call and leaves the store unchanged, whether or not the configuration
\* supplies a pair for it.
C3_PresentSlotIsNoOp ==
    last.op \in BootOps =>
        \A i \in DOMAIN last.slots :
            last.slots[i].present => (last.slots[i].stores = 0 /\ ~last.slots[i].changed)

\* C3 amended: a slot for which the configuration supplies no pair and whose name
\* is indexed makes no store call and leaves the store unchanged; a slot for which
\* the configuration supplies a pair with the expected subject name stores that
\* pair, present or not.
C3_PresentGeneratedSlotIsNoOp ==
    last.op \in BootOps =>
        \A i \in DOMAIN last.slots :
            /\ (last.slots[i].present /\ ~last.slots[i].injected)
                  => (last.slots[i].stores = 0 /\ ~last.slots[i].changed /\ last.slots[i].ok)
            /\ (last.slots[i].injected /\ last.slots[i].ok) => last.slots[i].stores = 1

\* a run that finds both names indexed, one slot configured and one not
C3_Witness ==
    /\ last.op = "reload"
    /\ Len(last.slots) = 2
    /\ last.slots[1].present /\ last.slots[1].injected /\ last.slots[1].changed
    /\ last.slots[2].present /\ ~last.slots[2].injected

\* the certificates of a chain of PEM blocks
ChainCerts(chain) == [i \in DOMAIN chain |-> Val(from_der(chain[i].data))]
SelfIssued(cert) == cert.aki = cert.ski

\* C4: the chain walk always terminates: it returns a chain or fails, and it never
\* performs more than 16 hops (key-identifier lookups).
C4_WalkTerminatesWithin16Hops ==
    last.op = "chain" => (last.status \in {"OK", "NOT_FOUND"} /\ last.hops <= 16)

\* C5: after a bootstrap that generates root and intermediate, for any leaf issued
\* by sign_certificate the chain walk started at the leaf's issuer name returns
\* exactly two certificates: "<Realm> Authority", which issued the leaf, first and
\* the self-issued "<Realm> Root CA" last.
C5_IssuedLeafHasTwoCertChain ==
    (last.op = "sign" /\ last.status = "OK") =>
        LET leaf == Val(from_der(Unwrap(last.body).data))
            walk == find_ca_chain(Ctx(storage), Unwrap(leaf.issuer))
            certs == ChainCerts(Val(walk.res))
        IN  /\ walk.returned /\ walk.res.ok
            /\ Len(certs) = 2
            /\ certs[1].subject = Some(AuthorityName(config.realm))
            /\ certs[1].ski = leaf.aki
            /\ certs[2].subject = Some(RootName(config.realm))
            /\ SelfIssued(certs[2])

\* C6: the chain walk stops at the first certificate whose AuthorityKeyIdentifier
\* equals its own SubjectKeyIdentifier, so no certificate appears twice in the
\* output, and a walk that starts at a self-issued certificate returns only that
\* certificate.
C6_WalkStopsAtFirstSelfIssued ==
    (last.op = "chain" /\ last.status = "OK") =>
        LET chain == Unwrap(last.body)
            certs == ChainCerts(chain)
        IN  /\ \A i, j \in DOMAIN chain : i # j => chain[i] # chain[j]
            /\ \A i \in DOMAIN chain : i < Len(chain) => ~SelfIssued(certs[i])
            /\ SelfIssued(certs[1]) => Len(chain) = 1

SignRequest == Unwrap(last.arg)
LockedNameDiffers(req) ==
    /\ req.auth.kind = "Token" /\ IsSome(req.auth.sub)
    /\ IsSome(req.csr) /\ IsSome(find_common_name(Unwrap(req.csr).subject))
    /\ Unwrap(req.auth.sub) # Unwrap(find_common_name(Unwrap(req.csr).subject))

\* C7: a signing request whose locked subject name differs from the CSR's subject
\* CN fails with Unauthorized, returns no leaf, makes no storage call and leaves the
\* store unchanged; under API-key authorization no CSR subject name is turned down:
\* the request goes on to the CA lookup.
C7_LockedNameMismatchIsUnauthorized ==
    last.op = "sign" =>
        /\ LockedNameDiffers(SignRequest) =>
               /\ last.status = "UNAUTHORIZED" /\ last.body = None
               /\ last.calls = <<>> /\ last.stored = <<>> /\ ~last.changed
        /\ (/\ SignRequest.auth.kind = "ApiKey" /\ IsSome(SignRequest.csr)
            /\ IsSome(find_common_name(Unwrap(SignRequest.csr).subject))) =>
               /\ last.status # "UNAUTHORIZED"
               /\ last.calls # <<>> /\ last.calls[1] = "get_addressing_hash_by_name"

C7_Witness ==
    /\ last.op = "sign" /\ LockedNameDiffers(SignRequest)
    /\ Has(storage.name, AuthorityName(config.realm))
    /\ Unwrap(SignRequest.csr).sig_ok /\ SignRequest.accept = "PemFile"
    /\ last.status = "UNAUTHORIZED"

\* C8: a successful issuance stores the leaf if and only if save_certificate is set;
\* the stored entry has the leaf's CN as name, the leaf's SKI as key identifier and
\* no private key.  No entry stored by issuance or by direct submission has a key,
\* and neither adds or alters a private key in the store.
C8_LeafStoredIffSaveBitAndWithoutKey ==
    [][ /\ (last'.op = "sign" /\ last'.status = "OK") =>
             LET leaf == Val(from_der(Unwrap(last'.body).data)) IN
             /\ config.save_certificate <=> last'.stored # <<>>
             /\ config.save_certificate =>
                    last'.stored = <<CertificateEntry(Unwrap(find_common_name(leaf.subject)),
                                                      to_der(leaf),
                                                      hex_encode(Val(subject_key_identifier(leaf))),
                                                      None)>>
             /\ ~config.save_certificate => storage' = storage
        /\ last'.op \in {"sign", "post_cert"} =>
             /\ \A i \in DOMAIN last'.stored : last'.stored[i].key = None
             /\ storage'.keys = storage.keys ]_vars

C8_Witness ==
    /\ last.op = "sign" /\ last.status = "OK" /\ config.save_certificate
    /\ Len(last.stored) = 1 /\ last.stored[1].key = None
    /\ Has(storage.name, last.stored[1].name)
    /\ ~Has(storage.keys, storage.name[last.stored[1].name])

LastStored == last.stored[Len(last.stored)]
CanonicalOf(cert_der) == multibase_encode("Base64UrlUpperNoPad", multihash_encode("SHA2256", cert_der))
AlternatesOf(cert_der) == {multibase_encode("Base64UrlUpperNoPad", multihash_encode("SHA1", cert_der))}

\* C9: right after a handler's last store(r) the certificate is read back under the
\* canonical address of r.cert, r.name and r.key_identifier resolve to that address,
\* and so does every alternate (SHA-1) address of r.cert.
C9_StoreLookupLaws ==
    last.stored # <<>> =>
        LET r == LastStored IN
        /\ get_cert_by_addressing_hash(storage, CanonicalOf(r.cert)) = Ok(r.cert)
        /\ get_addressing_hash_by_name(storage, r.name) = Ok(CanonicalOf(r.cert))
        /\ get_addressing_hash_by_key_identifier(storage, r.key_identifier) = Ok(CanonicalOf(r.cert))
        /\ \A a \in AlternatesOf(r.cert) : lookup_addressing_hash(storage, a) = Ok(CanonicalOf(r.cert))

C9_Witness ==
    /\ last.op = "post_cert" /\ last.status = "OK" /\ Len(last.stored) = 1
    /\ Cardinality(DOMAIN storage.cert) > 2
    /\ \A a \in AlternatesOf(LastStored.cert) : Has(storage.hash_lookup, a)

FetchRequest == Unwrap(last.arg)
\* the presented address is the digest under h of the stored certificate at address a
Presents(req, h, a) ==
    \E b \in Bases : req.multihash = multibase_encode(b, multihash_encode(h, storage.cert[a]))
Returned(req, cert_der) ==
    IF req.accept \in ResponseFormats
    THEN last.status = "OK" /\ last.body = Some([format |-> req.accept, data |-> cert_der])
    ELSE last.status = "BAD_REQUEST"

\* C10: get_cert uses a presented SHA-256 address, whatever its base, as the primary
\* key without consulting the alternate index and translates any other address
\* through the alternate index; for every stored certificate, retrieval by its
\* canonical address and by its SHA-1 address, in any base, returns that certificate.
C10_RetrievalByAnyAddressOfARecord ==
    last.op = "get_cert" =>
        LET req == FetchRequest
            conv == convert_to_canonical_base(req.multihash)
        IN  /\ (conv.ok /\ Val(conv)[2] = "SHA2256") =>
                   /\ last.calls = <<"get_cert_by_addressing_hash">>
                   /\ IF Has(storage.cert, Val(conv)[1])
                      THEN Returned(req, storage.cert[Val(conv)[1]])
                      ELSE last.status = "NOT_FOUND"
            /\ (conv.ok /\ Val(conv)[2] # "SHA2256") =>
                   /\ last.calls # <<>> /\ last.calls[1] = "lookup_addressing_hash"
                   /\ ~Has(storage.hash_lookup, Val(conv)[1]) => last.status = "INTERNAL_SERVER_ERROR"
            /\ \A a \in DOMAIN storage.cert, h \in {"SHA2256", "SHA1"} :
                   Presents(req, h, a) => Returned(req, storage.cert[a])

C10_Witness ==
    /\ last.op = "get_cert" /\ last.status = "OK"
    /\ \E a \in DOMAIN storage.cert : Presents(FetchRequest, "SHA1", a)
    /\ FetchRequest.multihash.prefix = "z"
    /\ last.calls = <<"lookup_addressing_hash", "get_cert_by_addressing_hash">>

SupportedHashes == {"SHA2256", "SHA1"}
NormaliseInput == Unwrap(last.arg)

\* C11: convert_to_canonical_base fails for every input that is not valid multibase
\* or not a valid multihash, and returns success only for an address whose digest
\* algorithm is SHA-256 or SHA-1.
C11_NormaliseRejectsUnsupported ==
    last.op = "normalise" =>
        /\ NormaliseInput \in MalformedAddresses => last.status = "ERROR"
        /\ last.status = "OK" =>
               \E b \in Bases, h \in SupportedHashes, data \in ByteStrings :
                   NormaliseInput = multibase_encode(b, multihash_encode(h, data))

\* the input is the address of data under digest d, encoded in base b
IsAddressOf(address, b, d, data) == address = multibase_encode(b, multihash_encode(d, data))

\* C12: normalising the address of a byte string B under a supported digest d, in
\* any base, returns the multihash of B under d in Base64UrlUpperNoPad together with
\* d; normalising the result again, or an address already in that base, returns it
\* unchanged.
C12_NormaliseRoundTrip ==
    last.op = "normalise" =>
        /\ \A b \in Bases, d \in SupportedHashes, data \in ByteStrings :
               IsAddressOf(NormaliseInput, b, d, data) =>
                   /\ last.status = "OK"
                   /\ Unwrap(last.body)[1] =
                          [prefix |-> "u", digits |-> [radix |-> "Base64UrlUpperNoPad",
                                                       val |-> multihash_encode(d, data)]]
                   /\ Unwrap(last.body)[2] = d
                   /\ b = "Base64UrlUpperNoPad" => Unwrap(last.body)[1] = NormaliseInput
        /\ last.status = "OK" =>
               convert_to_canonical_base(Unwrap(last.body)[1]) = Ok(Unwrap(last.body))

C12_Witness ==
    /\ last.op = "normalise" /\ last.status = "OK"
    /\ \E data \in ByteStrings : Len(data) = MaxBytes /\ IsAddressOf(NormaliseInput, "Base58btc", "SHA1", data)
    /\ Unwrap(last.body)[1].prefix = "u" /\ Unwrap(last.body)[2] = "SHA1"

\* C14: a configuration reload never generates a CA: the bootstrap run it triggers
\* generates no key pair, and a slot in which it stores is a slot the new
\* configuration supplies a pair for.
C14_ReloadGeneratesNoCa ==
    last.op = "reload" =>
        \A i \in DOMAIN last.slots :
            /\ last.slots[i].generated = 0
            /\ last.slots[i].stores > 0 => last.slots[i].injected

Warned(log, msg) == \E i \in DOMAIN log : log[i] = msg

\* C16: a reload whose new configuration changes database_url, file_backend_path or
\* backend logs a warning for each changed field, succeeds, leaves the controller's
\* storage handle as it was, and the new configuration takes effect.
C16_ReloadWarnsAndKeepsStorageHandle ==
    [][ (last'.op = "reload" /\ IsSome(last'.arg)) =>
            LET new_conf == Unwrap(last'.arg) IN
            /\ last'.status = "OK"
            /\ config.database_url # new_conf.database_url
                   <=> Warned(last'.warnings, "'database_url' modification require service restart")
            /\ config.file_backend_path # new_conf.file_backend_path
                   <=> Warned(last'.warnings, "'file_backend_path' modification require service restart")
            /\ config.backend # new_conf.backend
                   <=> Warned(last'.warnings, "'backend' modification require service restart")
            /\ handle' = handle
            /\ config' = new_conf ]_vars

C16_Witness ==
    /\ last.op = "reload" /\ last.status = "OK" /\ Len(last.warnings) = 3
    /\ handle # get_storage(config)
    /\ config = Unwrap(last.arg)

\* C18: a failed startup bootstrap is fatal: the controller is built only when
\* init_storage_from_config succeeds, requests are served only by a built
\* controller, and nothing at all happens after a failed startup.
C18_FailedStartupServesNothing ==
    [][ /\ phase # "panicked"
        /\ last'.op # "startup" => phase = "serving"
        /\ last'.op = "startup" =>
               /\ phase = "starting"
               /\ phase' = "serving" <=> last'.status = "OK"
               /\ last'.status # "OK" => phase' = "panicked" ]_vars

C18_Witness ==
    /\ phase = "panicked" /\ last.op = "startup" /\ last.status = "ERROR"

\* the pair the configuration supplies for a slot carries another subject CN than name
PairMismatches(pair, name) ==
    /\ IsSome(pair)
    /\ from_der(Unwrap(pair).cert).ok
    /\ find_common_name(Val(from_der(Unwrap(pair).cert)).subject) # Some(name)
RootMismatches(cfg) == PairMismatches(cfg.root, RootName(cfg.realm))
IntermediateMismatches(cfg) == PairMismatches(cfg.intermediate, AuthorityName(cfg.realm))

\* C19: a bootstrap run under a configuration that injects a CA certificate whose
\* subject CN is not the slot's name fails and stores nothing: the store is as it
\* was before the run.
C19_MismatchStoresNothing ==
    (last.op \in BootOps /\ IsSome(last.arg)
     /\ (RootMismatches(BootConfig) \/ IntermediateMismatches(BootConfig))) =>
        /\ last.status # "OK"
        /\ last.stored = <<>>
        /\ ~last.changed

\* C19 as amended: a mismatch in the root slot fails the run before any storage
\* call; a mismatch in the intermediate slot fails the run and stores nothing for
\* the intermediate slot, but what the root slot of the same run stored (at most
\* one entry, named "<Realm> Root CA") stays.
C19_MismatchStoresNothingForItsSlot ==
    (last.op \in BootOps /\ IsSome(last.arg)) =>
        /\ RootMismatches(BootConfig) =>
               /\ last.status # "OK" /\ last.stored = <<>> /\ last.calls = <<>> /\ ~last.changed
               /\ Len(last.slots) = 1
        /\ (IntermediateMismatches(BootConfig) /\ ~RootMismatches(BootConfig)) =>
               /\ last.status # "OK"
               /\ Len(last.slots) = 2
               /\ last.slots[2].stores = 0 /\ ~last.slots[2].changed
               /\ Len(last.stored) = last.slots[1].stores /\ Len(last.stored) <= 1
               /\ \A i \in DOMAIN last.stored : last.stored[i].name = RootName(BootConfig.realm)

C19_Witness ==
    /\ last.op = "reload" /\ IsSome(last.arg)
    /\ IntermediateMismatches(BootConfig) /\ ~RootMismatches(BootConfig)
    /\ last.status # "OK" /\ Len(last.stored) = 1 /\ last.changed
    /\ ~Has(storage.name, AuthorityName(BootConfig.realm))

\* the root of the realm cannot be read: its name is not indexed, or the record or
\* the private key at the indexed address is missing
RootUnreadable(st, realm) ==
    \/ ~Has(st.name, RootName(realm))
    \/ ~Has(st.cert, st.name[RootName(realm)])
    \/ ~Has(st.keys, st.name[RootName(realm)])
IntermediateSlot == last.slots[2]
GeneratesIntermediate ==
    /\ last.op \in BootOps /\ IsSome(last.arg) /\ Len(last.slots) = 2
    /\ ~IntermediateSlot.injected /\ ~IntermediateSlot.present
LastCalls(k) == SubSeq(last.calls, Len(last.calls) - k + 1, Len(last.calls))

\* C20: when the intermediate has to be generated, the root is resolved by name and
\* its certificate and private key are read before anything is generated; when the
\* root cannot be read, bootstrap fails and no intermediate is generated or stored.
C20_IntermediateNeedsReadableRoot ==
    GeneratesIntermediate =>
        /\ RootUnreadable(storage, BootConfig.realm) =>
               /\ last.status # "OK"
               /\ IntermediateSlot.stores = 0 /\ IntermediateSlot.generated = 0
               /\ ~IntermediateSlot.changed
               /\ ~Has(storage.name, AuthorityName(BootConfig.realm))
        /\ IntermediateSlot.stores > 0 =>
               /\ IntermediateSlot.stores = 1
               /\ LastCalls(4) = <<"get_addressing_hash_by_name", "get_cert_by_addressing_hash",
                                   "get_key_by_addressing_hash", "store">>
               /\ last.stored[Len(last.stored)].name = AuthorityName(BootConfig.realm)
               /\ Val(from_der(last.stored[Len(last.stored)].cert)).aki
                      = CertNamed(storage, RootName(BootConfig.realm)).ski

C20_Witness ==
    /\ GeneratesIntermediate /\ last.op = "reload"
    /\ Has(storage.name, RootName(BootConfig.realm))
    /\ ~Has(storage.keys, storage.name[RootName(BootConfig.realm)])
    /\ last.status # "OK"
    /\ LastCalls(1) = <<"get_key_by_addressing_hash">>

\* C15: no duplicate root generation: under every interleaving of startup, reloads
\* and requests in flight the store never holds more than one record named
\* "<Realm> Root CA" for a realm.
C15_NoDuplicateRoot ==
    \A realm \in Realms : Cardinality(RecordsNamed(storage, RootName(realm))) <= 1

\* C17: a signing request sees one configuration: the configuration it signs under
\* is the one its authorization was checked against.
C17_SignSeesOneConfiguration ==
    \A t \in TaskIds :
        (tasks[t].kind = "sign" /\ tasks[t].pc = "issuing") => tasks[t].conf = tasks[t].auth_conf

\* C21: records are immutable and permanent: no step of the server removes a stored
\* record or changes the certificate or the private key stored at an address.
C21_RecordsNeverChange ==
    [][ \A a \in DOMAIN storage.cert :
            /\ Has(storage'.cert, a) /\ storage'.cert[a] = storage.cert[a]
            /\ Has(storage.keys, a) => (Has(storage'.keys, a) /\ storage'.keys[a] = storage.keys[a])
      ]_vars

\* C24: the private key of every stored record parses as a PKCS#8 key whose public
\* component is the SubjectPublicKeyInfo of the record's certificate.
C24_StoredKeyMatchesCertificate ==
    \A a \in DOMAIN storage.keys :
        /\ Has(storage.cert, a)
        /\ parse_pk_from_magic_der(storage.keys[a]).ok
        /\ to_public_key(Val(parse_pk_from_magic_der(storage.keys[a])))
               = Val(from_der(storage.cert[a])).spki

\* C22: every entry of the name index, of the key-identifier index and of the
\* alternate-address index maps to an address at which a record is stored, and the
\* address of every stored record (and of every stored key) is the canonical
\* encoding (SHA-256 multihash, base64url) of the record's cert_der.
C22_IndexesPointToCanonicalRecords ==
    /\ \A n \in DOMAIN storage.name : Has(storage.cert, storage.name[n])
    /\ \A k \in DOMAIN storage.key_identifiers : Has(storage.cert, storage.key_identifiers[k])
    /\ \A h \in DOMAIN storage.hash_lookup : Has(storage.cert, storage.hash_lookup[h])
    /\ \A a \in DOMAIN storage.cert : a = CanonicalOf(storage.cert[a])
    /\ \A a \in DOMAIN storage.keys : Has(storage.cert, a)

\* both CAs, a submitted certificate and an issued leaf are stored and indexed
C22_Witness ==
    /\ last.op = "sign" /\ last.status = "OK" /\ Len(last.stored) = 1
    /\ Cardinality(DOMAIN storage.cert) > 3
    /\ Cardinality(DOMAIN storage.hash_lookup) > 3
    /\ Has(storage.name, LastStored.name)

\* the key identifier under which store indexes the record kept at address a
KeyIdentifierAt(a) == hex_encode(Unwrap(Val(from_der(storage.cert[a])).ski))

\* C23: the key-identifier index is one-to-one: no two stored records at different
\* canonical addresses have the same key_identifier, also after one CSR (one
\* public key) has been signed and saved more than once.
C23_KeyIdentifierIsOneToOne ==
    \A a, b \in DOMAIN storage.cert :
        (/\ from_der(storage.cert[a]).ok /\ from_der(storage.cert[b]).ok
         /\ KeyIdentifierAt(a) = KeyIdentifierAt(b)) => a = b

\* the public keys of this service's intermediate CA: of the records named
\* "<realm> Authority" that are kept with their private key
IntermediatePublicKeys ==
    {Val(from_der(storage.cert[a])).spki :
        a \in {b \in RecordsNamed(storage, AuthorityName(config.realm)) : Has(storage.keys, b)}}

\* C25: every record created by post_cert is a certificate signed by this service's
\* intermediate CA: a submitted certificate that the intermediate did not sign is
\* not stored, whatever its issuer and subject names are.
C25_SubmittedRecordIsSignedByIntermediate ==
    (last.op = "post_cert" /\ last.stored # <<>>) =>
        to_public_key(Val(from_der(LastStored.cert)).signer) \in IntermediatePublicKeys

\* an authorised signing request whose CSR has no subject common name
CsrLacksCommonName(req) ==
    /\ \/ req.auth.kind = "ApiKey"
       \/ req.auth.kind = "Token" /\ IsSome(req.auth.sub)
    /\ IsSome(req.csr) /\ ~IsSome(find_common_name(Unwrap(req.csr).subject))

\* C28: a signing request whose CSR has no subject common name fails with
\* BadRequest, whether the caller was authorised by API key or by a token with a
\* locked name; no leaf is returned and nothing is stored.
C28_CsrWithoutCommonNameIsBadRequest ==
    (last.op = "sign" /\ CsrLacksCommonName(SignRequest)) =>
        /\ last.status = "BAD_REQUEST"
        /\ last.body = None /\ last.stored = <<>> /\ ~last.changed

\* the stored CA records whose private key signed the certificate
SigningCas(cert) ==
    {Val(from_der(storage.cert[a])) :
        a \in {b \in DOMAIN storage.keys :
                 /\ Has(storage.cert, b)
                 /\ parse_pk_from_magic_der(storage.keys[b]).ok
                 /\ Val(parse_pk_from_magic_der(storage.keys[b])) = cert.signer}}

\* C27: for every CSR accepted by issuance the returned leaf's AuthorityKeyIdentifier
\* is the SubjectKeyIdentifier of the intermediate CA that signed it, its issuer is
\* that CA's subject, and the leaf verifies under the chain that the chain walk
\* returns for the leaf's issuer name.
C27_LeafVerifiesUnderWalkedChain ==
    (last.op = "sign" /\ last.status = "OK") =>
        LET leaf == Val(from_der(Unwrap(last.body).data))
            walk == find_ca_chain(Ctx(storage), Unwrap(find_common_name(leaf.issuer)))
        IN  /\ SigningCas(leaf) # {}
            /\ \A ca \in SigningCas(leaf) : leaf.aki = ca.ski /\ leaf.issuer = ca.subject
            /\ walk.returned /\ walk.res.ok
            /\ verify_chain(leaf, ChainCerts(Val(walk.res)))

\* the store holds a record identical to the entry: the same cert_der at its
\* canonical address, the same key (or none), and the entry's name, key identifier
\* and alternate addresses all lead to that address
AlreadyStored(st, entry) ==
    LET a == CanonicalOf(entry.cert) IN
    /\ Has(st.cert, a) /\ st.cert[a] = entry.cert
    /\ IF IsSome(entry.key) THEN Has(st.keys, a) /\ st.keys[a] = Unwrap(entry.key)
                            ELSE ~Has(st.keys, a)
    /\ Has(st.name, entry.name) /\ st.name[entry.name] = a
    /\ Has(st.key_identifiers, entry.key_identifier)
    /\ st.key_identifiers[entry.key_identifier] = a
    /\ \A h \in AlternatesOf(entry.cert) : Has(st.hash_lookup, h) /\ st.hash_lookup[h] = a

StoredNames == [i \in DOMAIN last.stored |-> last.stored[i].name]

\* C30: bootstrap handles the root slot before the intermediate slot: what it stores
\* for the root is stored before anything of the intermediate, and when the root
\* slot fails the run fails, the intermediate slot is not attempted (no storage
\* call is made for it) and nothing is stored for it.
C30_RootSlotBeforeIntermediateSlot ==
    last.op \in BootOps /\ IsSome(last.arg) =>
        /\ last.slots # <<>>
        /\ ~last.slots[1].ok =>
               /\ last.status # "OK"
               /\ Len(last.calls) = last.slots[1].stores /\ Len(last.stored) = last.slots[1].stores
               /\ \A i \in DOMAIN StoredNames : StoredNames[i] # AuthorityName(BootConfig.realm)
        /\ last.slots[1].ok =>
               /\ Len(last.slots) = 2
               /\ Len(last.stored) = last.slots[1].stores + last.slots[2].stores
               /\ \A i \in DOMAIN StoredNames :
                      StoredNames[i] = IF i <= last.slots[1].stores
                                       THEN RootName(BootConfig.realm)
                                       ELSE AuthorityName(BootConfig.realm)

\* a reload whose root slot failed on the configured pair, under a configuration that
\* leaves the intermediate to be generated, over a store that holds the realm's root
C30_Witness ==
    /\ last.op = "reload" /\ IsSome(last.arg)
    /\ last.slots # <<>> /\ ~last.slots[1].ok
    /\ BootConfig.intermediate = None
    /\ Has(storage.name, RootName(BootConfig.realm))
    /\ last.calls = <<>> /\ last.stored = <<>>

\* the names under which store indexes the record kept at address a
IndexedAt(st, a) ==
    LET cert == Val(from_der(st.cert[a])) IN
    /\ Has(st.name, Unwrap(find_common_name(cert.subject)))
    /\ Has(st.key_identifiers, hex_encode(Unwrap(cert.ski)))
    /\ \A h \in AlternatesOf(st.cert[a]) : Has(st.hash_lookup, h) /\ st.hash_lookup[h] = a

FailedLookups == IF "failing" \in DOMAIN BootConfig THEN BootConfig.failing ELSE {}

\* C31: a storage error met during bootstrap is fatal: when the existence lookup
\* by name for a CA slot fails for a reason other than the name being absent, the
\* bootstrap run fails, generates no CA and stores nothing.
C31_LookupFailureIsFatal ==
    (last.op \in BootOps /\ IsSome(last.arg) /\ FailedLookups # {}) =>
        /\ last.status # "OK"
        /\ last.stored = <<>> /\ ~last.changed

\* the storage calls of sign_certificate, in the order of its steps
IssuanceSteps ==
    <<"get_addressing_hash_by_name", "get_cert_by_addressing_hash",
      "get_key_by_addressing_hash", "store">>
FailedCalls == IF "failing" \in DOMAIN SignRequest THEN SignRequest.failing ELSE {}

\* C32: issuance returns the first error and stops: its storage calls are made in
\* the order resolve CA by name, read CA cert, read CA key, store leaf; a request
\* that fails returns no leaf and has stored nothing; a CSR without CN or with an
\* invalid signature is turned down after the three reads and before any store; a
\* leaf is stored only if save_certificate is set; and when the final store fails
\* the signed leaf is not returned.
C32_IssuanceStopsAtFirstError ==
    (/\ last.op = "sign" /\ SignRequest.auth.kind = "ApiKey"
     /\ SignRequest.accept \in ResponseFormats /\ IsSome(SignRequest.csr)) =>
        LET csr == Unwrap(SignRequest.csr) IN
        /\ Len(last.calls) <= Len(IssuanceSteps)
        /\ \A i \in DOMAIN last.calls : last.calls[i] = IssuanceSteps[i]
        /\ last.status # "OK" => (last.body = None /\ last.stored = <<>> /\ ~last.changed)
        /\ last.status = "OK" => (IsSome(last.body) /\ Len(last.calls) >= 3)
        /\ (~IsSome(find_common_name(csr.subject)) \/ ~csr.sig_ok) =>
               (last.status # "OK" /\ Len(last.calls) <= 3)
        /\ Len(last.calls) = 4 => config.save_certificate
        /\ ("store" \in FailedCalls /\ Len(last.calls) = 4) => last.status # "OK"

\* the leaf was built and signed and the store call of sign_certificate failed
C32_Witness ==
    /\ last.op = "sign" /\ "store" \in FailedCalls
    /\ Len(last.calls) = 4 /\ last.calls[4] = "store"
    /\ last.status = "INTERNAL_SERVER_ERROR" /\ last.body = None

\* the name resolves to a record that holds a private key
ResolvesToCa(st, name) ==
    /\ get_addressing_hash_by_name(st, name).ok
    /\ get_cert_by_addressing_hash(st, Val(get_addressing_hash_by_name(st, name))).ok
    /\ get_key_by_addressing_hash(st, Val(get_addressing_hash_by_name(st, name))).ok

\* C33: after a successful bootstrap, whatever signing requests and submissions
\* follow, the names "<Realm> Authority" and "<Realm> Root CA" resolve to records
\* that hold a private key, so that a signing request can fetch the CA certificate
\* and its key.
C33_CaNamesKeepResolvingToCas ==
    phase = "serving" =>
        /\ ResolvesToCa(storage, AuthorityName(config.realm))
        /\ ResolvesToCa(storage, RootName(config.realm))

\* C34: a failed reload leaves the shared configuration unchanged: when the new
\* configuration does not load or the bootstrap run against it fails, the reload
\* returns an error and the configuration stays as it was; the configuration
\* changes only in a reload whose bootstrap run succeeded, and then to the
\* configuration that reload loaded.
C34_FailedReloadKeepsConfiguration ==
    [][ /\ (last'.op = "reload" /\ last'.status # "OK") => config' = config
        /\ last'.op = "reload" /\ ~IsSome(last'.arg) => last'.status # "OK"
        /\ config' # config =>
               /\ last'.op = "reload" /\ last'.status = "OK"
               /\ config' = Unwrap(last'.arg) ]_vars

\* a reload failed after its bootstrap run had stored a root for the new realm;
\* the configuration is not the one the reload loaded
C34_Witness ==
    /\ last.op = "reload" /\ last.status # "OK" /\ IsSome(last.arg)
    /\ last.changed
    /\ BootConfig.realm # config.realm

\* the certificate of the last submission, and what it lacks
Submitted == Val(from_der(Unwrap(last.arg).cert))
LacksSki == ~IsSome(Submitted.ski)
LacksIssuerName == ~IsSome(find_common_name(Submitted.issuer))
LacksSubjectName == ~IsSome(find_common_name(Submitted.subject))
HasForeignIssuer ==
    /\ ~LacksIssuerName
    /\ Unwrap(find_common_name(Submitted.issuer)) # config.realm \o " Authority"
Rejected(status) ==
    /\ last.status = status
    /\ last.calls = <<>> /\ last.stored = <<>> /\ ~last.changed

\* C35 as stated: a submitted certificate whose issuer CN is not "<realm> Authority"
\* is answered Unauthorized, and one that lacks an SKI, an issuer CN or a subject
\* CN is answered BadRequest; neither is stored.
C35_ForeignIssuerUnauthorizedMissingFieldBadRequest ==
    (last.op = "post_cert" /\ from_der(Unwrap(last.arg).cert).ok) =>
        /\ HasForeignIssuer => Rejected("UNAUTHORIZED")
        /\ (LacksSki \/ LacksIssuerName \/ LacksSubjectName) => Rejected("BAD_REQUEST")

\* C35: post_cert checks in the order SKI, issuer CN present, issuer CN equal to
\* "<realm> Authority", subject CN present, and the first check that fails decides:
\* a certificate without SKI or without issuer CN is answered BadRequest; one with
\* an SKI and another issuer CN is answered Unauthorized, with or without a subject
\* CN; one with an SKI and the Authority's issuer CN but no subject CN is answered
\* BadRequest; none of them is stored, and every other certificate is stored.
C35_FirstFailingCheckDecides ==
    (last.op = "post_cert" /\ from_der(Unwrap(last.arg).cert).ok) =>
        IF LacksSki \/ LacksIssuerName THEN Rejected("BAD_REQUEST")
        ELSE IF HasForeignIssuer THEN Rejected("UNAUTHORIZED")
        ELSE IF LacksSubjectName THEN Rejected("BAD_REQUEST")
        ELSE last.status = "OK" /\ Len(last.stored) = 1

\* a certificate with an SKI, a foreign issuer CN and no subject CN was turned
\* down as unauthorized while the store holds submitted certificates
C35_Witness ==
    /\ last.op = "post_cert" /\ from_der(Unwrap(last.arg).cert).ok
    /\ ~LacksSki /\ HasForeignIssuer /\ LacksSubjectName
    /\ last.status = "UNAUTHORIZED"
    /\ Cardinality(DOMAIN storage.cert) > 2

\* C36: the configuration lock never deadlocks: under fair scheduling and every
\* interleaving of signing requests, chain requests, submissions and reloads, every
\* reload in flight obtains the write lock and completes and every request in
\* flight obtains its read view and completes.
C36_EveryRequestCompletes ==
    \A t \in TaskIds : (tasks[t] # Idle) ~> (tasks[t] = Idle)

\* the same for the reloads and the signing requests alone
C36_ReloadsAndSigningComplete ==
    \A t \in TaskIds :
        (tasks[t] # Idle /\ tasks[t].kind \in {"reload", "sign"}) ~> (tasks[t] = Idle)

\* C37: the KeyUsage flags are independent bits: after set_X(v) the getter X()
\* returns v and every other getter returns what it returned before; a setter on
\* a bit index beyond the length extends the bit string to index + 1 bits and
\* leaves a longer one at its length; bit index i is bit 7 - (i mod 8) of payload byte
\* i / 8, so that digital_signature and key_encipherment alone on a 7-bit value
\* give the payload 0xA0.
SetCall == Unwrap(last.arg)
KeyUsageAfter == Unwrap(last.body)
FlagsSet(key_usage) == {flag \in FlagNames : getter(key_usage, flag)}
C37_KeyUsageFlagsAreIndependentBits ==
    last.op = "key_usage_set" =>
        LET idx == FlagIndex(SetCall.flag) IN
        /\ getter(KeyUsageAfter, SetCall.flag) = SetCall.val
        /\ \A flag \in FlagNames \ {SetCall.flag} :
              getter(KeyUsageAfter, flag) = getter(SetCall.before, flag)
        /\ get_num_bits(KeyUsageAfter) =
              IF get_num_bits(SetCall.before) <= idx THEN idx + 1 ELSE get_num_bits(SetCall.before)
        /\ (as_bytes(KeyUsageAfter)[(idx \div 8) + 1] \div (2 ^ (7 - (idx % 8)))) % 2
              = (IF SetCall.val THEN 1 ELSE 0)
        /\ (get_num_bits(KeyUsageAfter) = 7
            /\ FlagsSet(KeyUsageAfter) = {"digital_signature", "key_encipherment"})
              => as_bytes(KeyUsageAfter) = <<160>>
\* decipher_only set on a 7-bit value that holds 0xA0
C37_Witness ==
    /\ last.op = "key_usage_set"
    /\ SetCall.flag = "decipher_only" /\ SetCall.val
    /\ get_num_bits(SetCall.before) = 7 /\ as_bytes(SetCall.before) = <<160>>
    /\ get_num_bits(KeyUsageAfter) = 9 /\ as_bytes(KeyUsageAfter) = <<160, 128>>

\* C38: Extension serialisation round-trips: an extension built by a constructor,
\* with either criticality, deserialises from its serialised form to itself; the
\* critical element is written exactly when the flag is true; an encoding without
\* the critical element deserialises as non-critical; an encoding whose id this
\* library has no type for deserialises to a Generic value.
Decoding == Unwrap(last.arg)
ElementsOf(encoded) == {encoded.content[i] : i \in DOMAIN encoded.content}
HasCriticalElement(encoded) == \E el \in ElementsOf(encoded) : el.tag = "BOOLEAN"
KnownExtensionIds ==
    {oids.authority_key_identifier, oids.subject_key_identifier, oids.key_usage,
     oids.subject_alternative_name, oids.issuer_alternative_name, oids.basic_constraints,
     oids.extended_key_usage}
IsUnknownExtension(encoded) ==
    /\ encoded.tag = "SEQUENCE" /\ NextIs(encoded.content, "OBJECT IDENTIFIER")
    /\ encoded.content[1].content \notin KnownExtensionIds
    /\ encoded.content[Len(encoded.content)].tag = "OCTET STRING"
C38_ExtensionRoundTrips ==
    /\ (last.op = "extension_serialize")
          => (HasCriticalElement(Unwrap(last.body)) <=> Unwrap(last.arg).critical)
    /\ (last.op = "extension_deserialize" /\ IsSome(Decoding.of))
          => (last.status = "OK" /\ last.body = Decoding.of)
    /\ (last.op = "extension_deserialize" /\ last.status = "OK"
        /\ ~HasCriticalElement(Decoding.encoded))
          => ~Unwrap(last.body).critical
    /\ (last.op = "extension_deserialize" /\ IsUnknownExtension(Decoding.encoded))
          => (last.status = "OK" /\ Unwrap(last.body).extn_value.variant = "Generic")
\* a key usage extension, critical by its constructor and made non-critical, read
\* back from its serialised form, which has no critical element
C38_Witness ==
    /\ last.op = "extension_deserialize" /\ IsSome(Decoding.of)
    /\ Unwrap(Decoding.of) = set_critical(new_key_usage(KeyUsage_new(9)), FALSE)
    /\ ~HasCriticalElement(Decoding.encoded)
    /\ last.body = Decoding.of

\* C39: the encoding of an AlgorithmIdentifier is determined by its OID and
\* round-trips: the RSA identifiers are written with a NULL parameter, the ECDSA
\* identifiers with no parameter, ecPublicKey with its curve parameter; a value
\* built by a constructor deserialises from its serialised form to itself; an
\* encoding with any other OID fails to deserialise with the unsupported-algorithm
\* error.
AlgorithmOid(encoded) == encoded.content[1].content
ParameterTags(encoded) == [i \in 1..(Len(encoded.content) - 1) |-> encoded.content[i + 1].tag]
CurveTag(a) == IF Unwrap(a.parameters.ec).variant = "NamedCurve" THEN "OBJECT IDENTIFIER" ELSE "NULL"
C39_AlgorithmEncodingFollowsOid ==
    /\ (last.op = "algorithm_serialize") =>
          LET a == Unwrap(last.arg)
              encoded == Unwrap(last.body)
          IN  /\ AlgorithmOid(encoded) = a.algorithm
              /\ a.algorithm \in RsaAlgorithms => ParameterTags(encoded) = <<"NULL">>
              /\ a.algorithm \in EcdsaAlgorithms => ParameterTags(encoded) = <<>>
              /\ a.algorithm = oids.ec_public_key =>
                    /\ ParameterTags(encoded) = <<CurveTag(a)>>
                    /\ CurveTag(a) = "OBJECT IDENTIFIER" =>
                          encoded.content[2].content = Unwrap(Unwrap(a.parameters.ec).oid)
    /\ (last.op = "algorithm_deserialize" /\ IsSome(Unwrap(last.arg).of))
          => (last.status = "OK" /\ last.body = Unwrap(last.arg).of)
    /\ (last.op = "algorithm_deserialize"
        /\ AlgorithmOid(Unwrap(last.arg).encoded)
              \notin RsaAlgorithms \cup EcdsaAlgorithms \cup {oids.ec_public_key})
          => (last.status = "unsupported algorithm (unknown oid)" /\ last.body = None)
\* SHA-256 with RSA read back from its serialised form, which carries NULL
C39_Witness ==
    /\ last.op = "algorithm_deserialize"
    /\ Unwrap(last.arg).of = Some(new_sha256_with_rsa_encryption)
    /\ ParameterTags(Unwrap(last.arg).encoded) = <<"NULL">>
    /\ last.body = Some(new_sha256_with_rsa_encryption)

\* C40: the backend setting selects the backend kind by name: each of the names
\* memory, file, mongodb, mysql and sqlite selects its own kind, no two of them
\* the same kind, and without a value the kind is mongodb.
BackendNames == {"memory", "file", "mongodb", "mysql", "sqlite"}
\* the setting in force: the environment's value, else the command line's
SettingInForce == IF IsSome(Unwrap(last.arg).env) THEN Unwrap(last.arg).env ELSE Unwrap(last.arg).cli
KindNamed(name) ==
    CASE name = "memory" -> "Memory"
      [] name = "file" -> "File"
      [] name = "mongodb" -> "MongoDb"
      [] name = "mysql" -> "MySQL"
      [] name = "sqlite" -> "SQLite"
C40_BackendSelectedByName ==
    last.op = "server_config_new" =>
        /\ ~IsSome(SettingInForce) => last.body = Some(KindNamed("mongodb"))
        /\ (IsSome(SettingInForce) /\ Unwrap(SettingInForce) \in BackendNames)
              => last.body = Some(KindNamed(Unwrap(SettingInForce)))

====
